---- MODULE Spec2Model ----
(***************************************************************************)
(* A model of the watermark repository's core: the nine-grid position      *)
(* calculator (watermarking/positioning.py), the text renderer             *)
(* (watermarking/text_renderer.py), the exporter with its resize rule and  *)
(* output namer (file_processing/exporter.py, file_processing/naming.py)   *)
(* and the importer (file_processing/importer.py).                         *)
(*                                                                         *)
(* Six specifications share the module.  Each one draws the inputs of the  *)
(* operation it is about in its initial states and leaves the variables of *)
(* the others at their idle values:                                        *)
(*   SpecPosition   compute_position on every bounded input                *)
(*   SpecWatermark  apply_text_watermark on an image heap                  *)
(*   Spec           export_images, one file operation per step, on a       *)
(*                  filesystem with directories, files and symlinks        *)
(*   SpecResize     _compute_new_size on small and on sampled sizes        *)
(*   SpecNaming     build_output_name                                      *)
(*   SpecImport     discover_inputs on lists of path strings               *)
(***************************************************************************)
EXTENDS Integers, Sequences, FiniteSets, TLC

VARIABLES
    pos_args,   \* the arguments of the compute_position call
    pos_ret,    \* whether the call has returned, and the (x, y) it returned
    wm_heap,    \* image objects by identity: id -> image record
    wm_args,    \* apply_text_watermark's arguments and the font environment
    wm_ret,     \* what the call did: pending, returned (an image id) or raised
    fs,         \* the filesystem: path -> node
    fs0,        \* the filesystem as it was when export_images was called
    call,       \* the export_images call: arguments, position, locals
    io_log,     \* the file operations the call has issued, in order
    rs_args,    \* the image size and options of the _compute_new_size call
    rs_ret,     \* whether the call has returned, and the (w, h) it returned
    nm_args,    \* the arguments of the build_output_name call
    nm_ret,     \* whether the call has returned, and the path it returned
    imp,        \* the discover_inputs call: arguments, position, locals
    call2,      \* a second export_images call, running at the same time
    io_log2,    \* the file operations the second call has issued, in order
    cli,        \* the process_directory call of the command-line tool
    gui,        \* the WatermarkGUI object: image list, selection, settings
    dlg         \* one ImportDialog: its widgets, timers and open modal windows

posVars == <<pos_args, pos_ret>>
wmVars == <<wm_heap, wm_args, wm_ret>>
exVars == <<fs, fs0, call, io_log, call2, io_log2>>
rsVars == <<rs_args, rs_ret>>
nmVars == <<nm_args, nm_ret>>
shVars == <<cli, gui, dlg>>
vars == <<pos_args, pos_ret, wm_heap, wm_args, wm_ret, fs, fs0, call, io_log,
          rs_args, rs_ret, nm_args, nm_ret, imp, call2, io_log2, cli, gui, dlg>>

Max(a, b) == IF a >= b THEN a ELSE b
Min(a, b) == IF a <= b THEN a ELSE b

(***************************************************************************)
(* Position calculator                                                     *)
(***************************************************************************)

\* Largest image or box dimension, and largest margin, drawn as input.
MaxDim == 4
MaxMargin == 5

GridPosition ==
    { "top_left", "top_center", "top_right",
      "center_left", "center", "center_right",
      "bottom_left", "bottom_center", "bottom_right" }

\* A mutation of initial_placement: the right column adds the margin
\* instead of subtracting it.
initial_placement_right_adds_margin(img_w, img_h, box_w, box_h, position, margin) ==
    CASE position = "top_left" -> <<margin, margin>>
      [] position = "top_center" -> <<(img_w - box_w) \div 2, margin>>
      [] position = "top_right" -> <<img_w - box_w + margin, margin>>
      [] position = "center_left" -> <<margin, (img_h - box_h) \div 2>>
      [] position = "center" -> <<(img_w - box_w) \div 2, (img_h - box_h) \div 2>>
      [] position = "center_right" -> <<img_w - box_w + margin, (img_h - box_h) \div 2>>
      [] position = "bottom_left" -> <<margin, img_h - box_h - margin>>
      [] position = "bottom_center" -> <<(img_w - box_w) \div 2, img_h - box_h - margin>>
      [] OTHER -> <<img_w - box_w + margin, img_h - box_h - margin>>

\* A mutation of initial_placement: the center branch starts at the margin.
initial_placement_center_adds_margin(img_w, img_h, box_w, box_h, position, margin) ==
    CASE position = "top_left" -> <<margin, margin>>
      [] position = "top_center" -> <<(img_w - box_w) \div 2, margin>>
      [] position = "top_right" -> <<img_w - box_w - margin, margin>>
      [] position = "center_left" -> <<margin, (img_h - box_h) \div 2>>
      [] position = "center" -> <<(img_w - box_w) \div 2 + margin,
                                  (img_h - box_h) \div 2 + margin>>
      [] position = "center_right" -> <<img_w - box_w - margin, (img_h - box_h) \div 2>>
      [] position = "bottom_left" -> <<margin, img_h - box_h - margin>>
      [] position = "bottom_center" -> <<(img_w - box_w) \div 2, img_h - box_h - margin>>
      [] OTHER -> <<img_w - box_w - margin, img_h - box_h - margin>>

\* The if/elif chain of compute_position: the placement before clamping.
\* Python's // is floor division, as is \div.
initial_placement(img_w, img_h, box_w, box_h, position, margin) ==
    CASE position = "top_left" -> <<margin, margin>>
      [] position = "top_center" -> <<(img_w - box_w) \div 2, margin>>
      [] position = "top_right" -> <<img_w - box_w - margin, margin>>
      [] position = "center_left" -> <<margin, (img_h - box_h) \div 2>>
      [] position = "center" -> <<(img_w - box_w) \div 2, (img_h - box_h) \div 2>>
      [] position = "center_right" -> <<img_w - box_w - margin, (img_h - box_h) \div 2>>
      [] position = "bottom_left" -> <<margin, img_h - box_h - margin>>
      [] position = "bottom_center" -> <<(img_w - box_w) \div 2, img_h - box_h - margin>>
      [] OTHER -> <<img_w - box_w - margin, img_h - box_h - margin>>

\* A mutation of clamp_axis: the lower bound is applied, the upper is not.
clamp_axis_no_ceiling(v, free) == Max(0, v)

\* A mutation of clamp_axis: the upper bound is applied, the lower is not.
clamp_axis_no_floor(v, free) == Min(v, free)

\* max(0, min(v, dimension - box_dimension))
clamp_axis(v, free) == Max(0, Min(v, free))

compute_position(img_w, img_h, box_w, box_h, position, margin) ==
    LET p == initial_placement(img_w, img_h, box_w, box_h, position, margin)
    IN  <<clamp_axis(p[1], img_w - box_w), clamp_axis(p[2], img_h - box_h)>>

PosArgs ==
    [img_w : 0..MaxDim, img_h : 0..MaxDim, box_w : 0..MaxDim, box_h : 0..MaxDim,
     position : GridPosition, margin : 0..MaxMargin]

PosIdle == pos_args = "idle" /\ pos_ret = [done |-> TRUE, xy |-> <<0, 0>>]

PosInit == pos_args \in PosArgs /\ pos_ret = [done |-> FALSE, xy |-> <<0, 0>>]

ComputePosition ==
    /\ ~pos_ret.done
    /\ pos_ret' = [done |-> TRUE,
                   xy |-> compute_position(pos_args.img_w, pos_args.img_h,
                                           pos_args.box_w, pos_args.box_h,
                                           pos_args.position, pos_args.margin)]
    /\ UNCHANGED <<pos_args, wmVars, exVars, rsVars, nmVars, imp, shVars>>

(***************************************************************************)
(* Text renderer                                                           *)
(*                                                                         *)
(* Images are objects on a heap (wm_heap, indexed by identity).  An image  *)
(* is its color mode, its size and its pixel content px; px is the term    *)
(* that produced the pixels: an origin and the operations applied since.   *)
(* Two images with the same mode, size and px hold the same pixels.        *)
(***************************************************************************)

\* Bounds of the inputs drawn for apply_text_watermark.
MaxImgSide == 3
MaxTextLen == 2
MaxFontSize == 2
MaxWmMargin == 1
MaxOpacity == 102

\* The metrics of ImageFont.load_default(), the unscalable built-in font
\* (text_renderer.py line 52), in the model's units.
DefaultGlyphW == 1
DefaultGlyphH == 1

ImageModes == {"RGB", "RGBA", "L"}

NoOp == [op |-> "none", mode |-> "", xy |-> <<0, 0>>, text |-> <<>>,
         font |-> "", fill |-> <<0, 0, 0, 0>>]

\* Image.copy(): a new object with the same mode, size and pixels.
image_copy(img) == img

\* Image.convert(mode): a new object in the requested mode.
image_convert(img, mode) ==
    [img EXCEPT !.mode = mode,
                !.px = [@ EXCEPT !.ops = Append(@, [NoOp EXCEPT !.op = "convert",
                                                                 !.mode = mode])]]

\* Image.new("RGBA", size, (0, 0, 0, 0))
image_new(mode, w, h) ==
    [mode |-> mode, w |-> w, h |-> h, px |-> [origin |-> "transparent", ops |-> <<>>]]

\* ImageDraw.Draw(img).text(xy, text, font=font, fill=fill): draws into img.
draw_text(img, xy, text, font, fill) ==
    [img EXCEPT !.px = [@ EXCEPT !.ops = Append(@, [NoOp EXCEPT !.op = "text",
                                                                 !.xy = xy,
                                                                 !.text = text,
                                                                 !.font = font.name,
                                                                 !.fill = fill])]]

\* Image.alpha_composite(base, overlay): a new image, base with overlay on top.
alpha_composite(base, overlay) ==
    [base EXCEPT !.px = [@ EXCEPT !.ops = @ \o <<[NoOp EXCEPT !.op = "composite"]>>
                                             \o overlay.px.ops]]

\* The fallback list of _load_font, in its order.
system_font_paths ==
    << "C:/Windows/Fonts/arial.ttf", "C:/Windows/Fonts/simhei.ttf",
       "C:/Windows/Fonts/simsun.ttc", "C:/Windows/Fonts/microsoftyahei.ttf",
       "Arial", "SimHei", "SimSun", "Microsoft YaHei" >>

\* ImageFont.truetype(name, size) succeeds exactly for the installed fonts.
truetype(name, size) == [kind |-> "truetype", name |-> name, size |-> size]

load_default == [kind |-> "default", name |-> "default", size |-> 0]

\* _load_font: the caller's font name first (when given and not empty), then
\* the first loadable entry of system_font_paths, then the built-in default.
\* font_name "" stands for None and for the empty string, both falsy.
_load_font(font_size, font_name, installed) ==
    IF font_name # "" /\ font_name \in installed
    THEN truetype(font_name, font_size)
    ELSE LET ok == {i \in DOMAIN system_font_paths : system_font_paths[i] \in installed}
         IN  IF ok # {}
             THEN truetype(system_font_paths[CHOOSE i \in ok : \A j \in ok : i <= j],
                           font_size)
             ELSE load_default

\* draw.textbbox((0, 0), text, font=font), as <<left, top, right, bottom>>: a
\* scalable font's glyph is font.size wide and high, the default font's is fixed.
textbbox(text, font) ==
    IF font.kind = "truetype"
    THEN <<0, 0, Len(text) * font.size, font.size>>
    ELSE <<0, 0, Len(text) * DefaultGlyphW, DefaultGlyphH>>

\* A mutation of _clamp_opacity: no upper bound.
_clamp_opacity_no_ceiling(opacity) == Max(0, opacity)

\* max(0, min(100, int(opacity)))
_clamp_opacity(opacity) == Max(0, Min(100, opacity))

\* int(255 * (_clamp_opacity(opacity) / 100.0)): int() truncates, and for the
\* 101 clamped values 0..100 the float product truncates to the exact floor.
text_alpha(opacity) == (255 * _clamp_opacity(opacity)) \div 100

\* The declared fields of the TextWatermarkOptions record.
DeclaredFields == {"text", "font_size", "color", "opacity", "position", "margin"}

HasAttr(options, name) == name \in DOMAIN options

\* A mutation of is_noop: only a zero opacity is the no-op, a negative one renders.
is_noop_only_zero(options) == options.opacity = 0 \/ options.text = <<>>

\* The guard of the early return: options.opacity <= 0 or not options.text.
is_noop(options) == options.opacity <= 0 \/ options.text = <<>>

\* A mutation of noop_result: the input object itself is returned.
noop_result_same_object(heap, image) ==
    [heap |-> heap, ret |-> [kind |-> "returned", img |-> image, exc |-> "", alpha |-> -1]]

\* return image.copy()
noop_result(heap, image) ==
    [heap |-> Append(heap, image_copy(heap[image])),
     ret |-> [kind |-> "returned", img |-> Len(heap) + 1, exc |-> "", alpha |-> -1]]

\* Lines 87-117 of apply_text_watermark: base and overlay are created, then
\* options.font_name is read (an AttributeError when the options object has no
\* such attribute), the text is measured, placed, drawn into the overlay and
\* composited, and the composite is converted back to the input's mode.
render_result(heap, image, options, installed) ==
    LET base == image_convert(heap[image], "RGBA")
        overlay == image_new("RGBA", base.w, base.h)
    IN  IF ~HasAttr(options, "font_name")
        THEN [heap |-> heap \o <<base, overlay>>,
              ret |-> [kind |-> "raised", img |-> 0, exc |-> "AttributeError",
                       alpha |-> -1]]
        ELSE LET font == _load_font(options.font_size, options.font_name, installed)
                 bbox == textbbox(options.text, font)
                 xy == compute_position(base.w, base.h, bbox[3] - bbox[1],
                                        bbox[4] - bbox[2], options.position,
                                        options.margin)
                 alpha == text_alpha(options.opacity)
                 drawn == draw_text(overlay, xy, options.text, font,
                                    options.color \o <<alpha>>)
                 result == alpha_composite(base, drawn)
             IN  [heap |-> heap \o <<base, drawn, result,
                                     image_convert(result, heap[image].mode)>>,
                  ret |-> [kind |-> "returned", img |-> Len(heap) + 4, exc |-> "",
                           alpha |-> alpha]]

apply_text_watermark(heap, image, options, installed) ==
    IF is_noop(options)
    THEN noop_result(heap, image)
    ELSE render_result(heap, image, options, installed)

TextOf(n) == [i \in 1..n |-> "w"]

InputImage(mode, w, h) ==
    [mode |-> mode, w |-> w, h |-> h, px |-> [origin |-> "input", ops |-> <<>>]]

\* The options objects: the record as types.py declares it, and the same with
\* the font_name attribute the renderer reads ("" is None, "Custom" a name).
OptionsOf(text, font_size, color, opacity, position, margin, font) ==
    LET declared == [text |-> text, font_size |-> font_size, color |-> color,
                     opacity |-> opacity, position |-> position, margin |-> margin]
    IN  IF font = "<no attribute>"
        THEN declared
        ELSE [f \in DeclaredFields \cup {"font_name"} |->
                 IF f = "font_name" THEN font ELSE declared[f]]

FontAttrs == {"<no attribute>", "", "Custom"}

FontEnvs == { {}, {"Custom"}, {"Arial", "SimSun"} }

\* Every opacity from -1 to MaxOpacity, on every image mode.
OpacitySweep ==
    { [image |-> InputImage(mode, MaxImgSide, MaxImgSide),
       options |-> OptionsOf(TextOf(n), 1, color, opacity, "bottom_right", 0, font),
       installed |-> {}] :
        mode \in ImageModes, n \in 0..1, color \in {<<255, 255, 255>>, <<255, 0, 0>>},
        opacity \in -1..MaxOpacity, font \in FontAttrs }

\* Every position, margin, text length, font size, font and image size.
LayoutSweep ==
    { [image |-> InputImage("RGB", sz[1], sz[2]),
       options |-> OptionsOf(TextOf(tf[1]), tf[2], <<255, 255, 255>>, opacity, pm[1],
                             pm[2], fe[1]),
       installed |-> fe[2]] :
        sz \in (1..MaxImgSide) \X (1..MaxImgSide),
        tf \in (0..MaxTextLen) \X (1..MaxFontSize),
        opacity \in {0, 50, 100},
        pm \in GridPosition \X (0..MaxWmMargin),
        fe \in FontAttrs \X FontEnvs }

WmPending == [kind |-> "pending", img |-> 0, exc |-> "", alpha |-> -1]

WmIdle == wm_heap = <<>> /\ wm_args = "idle" /\ wm_ret = WmPending

WmInit ==
    /\ wm_args \in OpacitySweep \cup LayoutSweep
    /\ wm_heap = <<wm_args.image>>
    /\ wm_ret = WmPending

\* The call apply_text_watermark(image, options), image being object 1.
ApplyTextWatermark ==
    /\ wm_ret.kind = "pending"
    /\ LET r == apply_text_watermark(wm_heap, 1, wm_args.options, wm_args.installed)
       IN  wm_heap' = r.heap /\ wm_ret' = r.ret
    /\ UNCHANGED <<wm_args, posVars, exVars, rsVars, nmVars, imp, shVars>>

(***************************************************************************)
(* Paths and the filesystem                                                *)
(*                                                                         *)
(* A string is a sequence of fragments ("a", "wm_", ".jpg", "/", ".."); a  *)
(* path is the sequence of its components, each a non-empty string without *)
(* "/".  All paths are absolute.  The filesystem holds directories, files  *)
(* and symbolic links under their physical paths.                          *)
(***************************************************************************)

\* Symbolic links followed in one lookup before ELOOP.
MaxLinkDepth == 2

\* formats.py: the input extensions discover_inputs keeps.
SUPPORTED_INPUT_EXTS == {".jpg", ".jpeg", ".png", ".bmp", ".tif", ".tiff"}

\* The fragments that are a file name's suffix when they end it: a dot and
\* what follows the name's last dot.
SuffixFragments == SUPPORTED_INPUT_EXTS \cup {".JPG", ".PNG", ".txt", ".x"}

PARENT_DIR == <<"..">>

RECURSIVE SplitPath(_, _, _)
\* pathlib's parsing of a string: components between "/" separators, empty
\* components and "." dropped, ".." kept.
SplitPath(str, cur, acc) ==
    LET flushed == IF cur = <<>> \/ cur = <<".">> THEN acc ELSE Append(acc, cur)
    IN  IF str = <<>> THEN flushed
        ELSE IF Head(str) = "/" THEN SplitPath(Tail(str), <<>>, flushed)
        ELSE SplitPath(Tail(str), Append(cur, Head(str)), acc)

\* Path.__truediv__: dir / str; an absolute right operand replaces dir.
JoinPath(dir, str) ==
    IF str # <<>> /\ Head(str) = "/"
    THEN SplitPath(str, <<>>, <<>>)
    ELSE dir \o SplitPath(str, <<>>, <<>>)

\* Path.parent: the path without its last component (lexical).
Parent(path) == IF path = <<>> THEN <<>> ELSE SubSeq(path, 1, Len(path) - 1)

\* Path.stem: the last component without its suffix.
Stem(path) ==
    LET name == path[Len(path)]
    IN  IF Len(name) > 1 /\ name[Len(name)] \in SuffixFragments
        THEN SubSeq(name, 1, Len(name) - 1)
        ELSE name

IsDir(fsys, path) == path \in fsys.dirs
IsFile(fsys, path) == path \in DOMAIN fsys.files
IsLink(fsys, path) == path \in DOMAIN fsys.links

RECURSIVE Resolve(_, _, _, _)
\* Path.resolve() (os.path.realpath, not strict): symlinks followed, ".."
\* removes the component before it, components that do not exist are kept.
Resolve(fsys, cur, rest, fuel) ==
    IF rest = <<>> THEN cur
    ELSE IF Head(rest) = PARENT_DIR THEN Resolve(fsys, Parent(cur), Tail(rest), fuel)
    ELSE LET nxt == Append(cur, Head(rest))
         IN  IF IsLink(fsys, nxt) /\ fuel > 0
             THEN Resolve(fsys, <<>>, fsys.links[nxt] \o Tail(rest), fuel - 1)
             ELSE Resolve(fsys, nxt, Tail(rest), fuel)

resolve(fsys, path) == Resolve(fsys, <<>>, path, MaxLinkDepth)

RECURSIVE Lookup(_, _, _, _)
\* The kernel's path lookup: every component before the last must be a
\* directory (after following symlinks); the last one may be missing.
\* [err |-> "" | "ENOENT" | "ENOTDIR" | "ELOOP", path |-> the physical path]
Lookup(fsys, cur, rest, fuel) ==
    IF rest = <<>> THEN [err |-> "", path |-> cur]
    ELSE IF IsFile(fsys, cur) THEN [err |-> "ENOTDIR", path |-> cur]
    ELSE IF ~IsDir(fsys, cur) THEN [err |-> "ENOENT", path |-> cur]
    ELSE IF Head(rest) = PARENT_DIR THEN Lookup(fsys, Parent(cur), Tail(rest), fuel)
    ELSE LET nxt == Append(cur, Head(rest))
         IN  IF IsLink(fsys, nxt)
             THEN IF fuel > 0
                  THEN Lookup(fsys, <<>>, fsys.links[nxt] \o Tail(rest), fuel - 1)
                  ELSE [err |-> "ELOOP", path |-> nxt]
             ELSE Lookup(fsys, nxt, Tail(rest), fuel)

lookup(fsys, path) == Lookup(fsys, <<>>, path, MaxLinkDepth)

RECURSIVE mkdir_parents(_, _)
\* Path.mkdir(parents=True, exist_ok=True): os.mkdir; on FileNotFoundError the
\* (lexical) parent is made first and os.mkdir tried again; any other OSError
\* is raised unless the path is a directory.  [ok, fs]
mkdir_parents(fsys, path) ==
    LET at == lookup(fsys, path)
    IN  IF at.err = ""
        THEN IF IsDir(fsys, at.path) THEN [ok |-> TRUE, fs |-> fsys]
             ELSE IF IsFile(fsys, at.path) THEN [ok |-> FALSE, fs |-> fsys]
             ELSE [ok |-> TRUE, fs |-> [fsys EXCEPT !.dirs = @ \cup {at.path}]]
        ELSE IF at.err = "ENOENT" /\ path # <<>>
        THEN LET up == mkdir_parents(fsys, Parent(path))
             IN  IF ~up.ok THEN up
                 ELSE LET again == lookup(up.fs, path)
                      IN  IF again.err # "" \/ IsFile(up.fs, again.path)
                          THEN [ok |-> FALSE, fs |-> up.fs]
                          ELSE [ok |-> TRUE,
                                fs |-> [up.fs EXCEPT !.dirs = @ \cup {again.path}]]
        ELSE [ok |-> FALSE, fs |-> fsys]

NoImage == [kind |-> "none", id |-> "", format |-> "", mode |-> "", w |-> 0, h |-> 0,
            quality |-> -1]

\* Image.open(path): the file's image, or a failure when the path is missing,
\* is a directory or holds no image.  [ok, img]
image_open(fsys, path) ==
    LET at == lookup(fsys, path)
    IN  IF at.err = "" /\ IsFile(fsys, at.path) /\ fsys.files[at.path].kind = "image"
        THEN [ok |-> TRUE, img |-> fsys.files[at.path]]
        ELSE [ok |-> FALSE, img |-> NoImage]

\* A mutation of image_save: a file that is there already is left as it is.
image_save_keeps_existing(fsys, path, img) ==
    LET at == lookup(fsys, path)
    IN  IF at.err = "" /\ ~IsDir(fsys, at.path)
        THEN [ok |-> TRUE, path |-> at.path,
              fs |-> [fsys EXCEPT !.files = @ @@ (at.path :> img)]]
        ELSE [ok |-> FALSE, path |-> at.path, fs |-> fsys]

\* img.save(path, format=..., quality=...): creates or replaces the file at
\* path; fails when its directory is missing or the path is a directory.
image_save(fsys, path, img) ==
    LET at == lookup(fsys, path)
    IN  IF at.err = "" /\ ~IsDir(fsys, at.path)
        THEN [ok |-> TRUE, path |-> at.path,
              fs |-> [fsys EXCEPT !.files = (at.path :> img) @@ @]]
        ELSE [ok |-> FALSE, path |-> at.path, fs |-> fsys]

(***************************************************************************)
(* Output namer                                                            *)
(***************************************************************************)

\* str.lower() on the strings the model uses.
Lower(str) ==
    CASE str = "JPEG" -> "jpeg"
      [] str = "PNG" -> "png"
      [] str = "Jpeg" -> "jpeg"
      [] str = ".JPG" -> ".jpg"
      [] str = ".PNG" -> ".png"
      [] OTHER -> str

\* A mutation of build_output_name: the prefix is applied in every mode.
build_output_name_always_prefix(src_file, out_dir, mode, prefix, suffix, out_ext) ==
    LET stem == CASE mode = "suffix" -> prefix \o Stem(src_file) \o suffix
                  [] OTHER -> prefix \o Stem(src_file)
        ext == IF Lower(out_ext) = "jpeg" THEN ".jpg" ELSE ".png"
    IN  JoinPath(out_dir, stem \o <<ext>>)

\* build_output_name: the stem by naming mode, the extension by format.
build_output_name(src_file, out_dir, mode, prefix, suffix, out_ext) ==
    LET stem == CASE mode = "prefix" -> prefix \o Stem(src_file)
                  [] mode = "suffix" -> Stem(src_file) \o suffix
                  [] OTHER -> Stem(src_file)
        ext == IF Lower(out_ext) = "jpeg" THEN ".jpg" ELSE ".png"
    IN  JoinPath(out_dir, stem \o <<ext>>)

(***************************************************************************)
(* Exporter                                                                *)
(*                                                                         *)
(* One export_images call, one file operation per step:                    *)
(*   called -> (empty list) returned                                       *)
(*   called -> check        output_dir.mkdir(parents, exist_ok)            *)
(*   check  -> open | raised(ValueError)                                   *)
(*   open   -> prepare      build_output_name, Image.open(src)             *)
(*   prepare -> save        convert, resize, dest.parent.mkdir             *)
(*   save   -> open | returned   img.save(dest), exported.append(dest)     *)
(* and every failing operation ends the call in raised.                    *)
(***************************************************************************)

\* Longest input list drawn for export_images, and the largest jpeg_quality.
MaxFiles == 3
MaxQuality == 101

\* int(x) for the quotient n / d, d > 0: truncation toward zero.
TruncDiv(n, d) == IF n >= 0 THEN n \div d ELSE -((-n) \div d)

\* The triples <<a, b, c>>, among the inputs drawn below, on which the float
\* product a * (b / c) falls just short of the integer a * b / c, so that int()
\* gives one less: 15 * (49 / 3) is 244.99999999999997.  On every other input
\* drawn the float product truncates to the exact quotient.
FloatShortfall ==
    { <<7, 61, 7>>, <<15, 49, 3>>, <<25, 116, 25>>, <<25, 116, 100>>,
      <<50, 116, 100>>, <<50, 116, 200>>, <<200, 116, 50>>, <<200, 116, 100>> }

\* int(a * (b / c)), c > 0, in float arithmetic.
int_scaled(a, b, c) ==
    TruncDiv(a * b, c) - (IF <<a, b, c>> \in FloatShortfall THEN 1 ELSE 0)

\* A mutation of percent_scale: the scale has no lower bound.
percent_scale_unclamped(val) == val

\* max(0.01, float(val) / 100.0), in hundredths.
percent_scale(val) == Max(1, val)

\* _compute_new_size.  resize_value is <<>> for None and <<v>> for the integer
\* v; images have sides of at least 1.
_compute_new_size(img, options) ==
    LET w == img.w
        h == img.h
        mode == options.resize_mode
    IN  IF mode = "none" \/ options.resize_value = <<>> THEN <<w, h>>
        ELSE LET val == options.resize_value[1]
             IN  CASE mode = "by_width" ->
                        <<Max(1, val),
                          Max(1, IF options.keep_aspect_ratio
                                 THEN Max(1, int_scaled(h, val, w)) ELSE h)>>
                   [] mode = "by_height" ->
                        <<Max(1, IF options.keep_aspect_ratio
                                 THEN Max(1, int_scaled(w, val, h)) ELSE w),
                          Max(1, val)>>
                   [] mode = "by_percent" ->
                        <<Max(1, int_scaled(w, percent_scale(val), 100)),
                          Max(1, int_scaled(h, percent_scale(val), 100))>>
                   [] OTHER -> <<w, h>>

\* A mutation of prepared_image: output_format is compared as it is written.
prepared_image_format_as_written(img, options) ==
    LET jpeg == options.output_format = "jpeg"
        rgb == IF jpeg /\ img.mode \notin {"RGB", "L"} THEN [img EXCEPT !.mode = "RGB"]
               ELSE img
        size == _compute_new_size(rgb, options)
    IN  [rgb EXCEPT !.w = size[1], !.h = size[2],
                    !.format = IF jpeg THEN "JPEG" ELSE "PNG",
                    !.quality = IF jpeg THEN Max(0, Min(100, options.jpeg_quality))
                                ELSE -1]

\* A mutation of prepared_image: jpeg_quality is passed on as it is given.
prepared_image_quality_as_given(img, options) ==
    LET jpeg == Lower(options.output_format) = "jpeg"
        rgb == IF jpeg /\ img.mode \notin {"RGB", "L"} THEN [img EXCEPT !.mode = "RGB"]
               ELSE img
        size == _compute_new_size(rgb, options)
    IN  [rgb EXCEPT !.w = size[1], !.h = size[2],
                    !.format = IF jpeg THEN "JPEG" ELSE "PNG",
                    !.quality = IF jpeg THEN options.jpeg_quality ELSE -1]

\* Lines 96-104 and 108-111: the image as it is handed to save.
prepared_image(img, options) ==
    LET jpeg == Lower(options.output_format) = "jpeg"
        rgb == IF jpeg /\ img.mode \notin {"RGB", "L"} THEN [img EXCEPT !.mode = "RGB"]
               ELSE img
        size == _compute_new_size(rgb, options)
    IN  [rgb EXCEPT !.w = size[1], !.h = size[2],
                    !.format = IF jpeg THEN "JPEG" ELSE "PNG",
                    !.quality = IF jpeg THEN Max(0, Min(100, options.jpeg_quality))
                                ELSE -1]

\* sorted({p.parent for p in files})
source_dirs(files) == {Parent(files[k]) : k \in DOMAIN files}

\* A mutation of output_dir_is_source_dir: only the first file's directory
\* is compared.
output_dir_is_first_source_dir(fsys, options, files) ==
    resolve(fsys, options.output_dir) = resolve(fsys, Parent(files[1]))

\* The loop of _ensure_output_dir: out.resolve() == src.resolve() for one of
\* the source directories.
output_dir_is_source_dir(fsys, options, files) ==
    \E src \in source_dirs(files) :
        resolve(fsys, options.output_dir) = resolve(fsys, src)

\* A mutation of file_failed: the failure is swallowed and the loop goes on.
file_failed_and_skipped(c) ==
    IF c.i < Len(c.files)
    THEN [c EXCEPT !.pc = "open", !.i = @ + 1, !.img = NoImage]
    ELSE [c EXCEPT !.pc = "returned", !.img = NoImage]

\* An exception raised while files[i] is processed: nothing in export_images
\* catches it.
file_failed(c) == [c EXCEPT !.pc = "raised", !.exc = "OSError"]

\* A mutation of file_exported: the destination is put in front of the list.
file_exported_in_front(c) ==
    IF c.i < Len(c.files)
    THEN [c EXCEPT !.pc = "open", !.i = @ + 1, !.img = NoImage,
                   !.exported = <<c.dest>> \o @]
    ELSE [c EXCEPT !.pc = "returned", !.img = NoImage,
                   !.exported = <<c.dest>> \o @]

\* Lines 113-115: exported.append(dest), then the next file or return exported.
file_exported(c) ==
    IF c.i < Len(c.files)
    THEN [c EXCEPT !.pc = "open", !.i = @ + 1, !.img = NoImage,
                   !.exported = Append(@, c.dest)]
    ELSE [c EXCEPT !.pc = "returned", !.img = NoImage,
                   !.exported = Append(@, c.dest)]

Event(op, idx, path, ok) == [op |-> op, idx |-> idx, path |-> path, ok |-> ok]

\* The steps of one call c on the filesystem fsys.  Each gives the filesystem
\* and the call after the step and the file operation it issued:
\* [fs, call, events].

\* if not files: return []
step_return_empty(fsys, c) ==
    [fs |-> fsys, call |-> [c EXCEPT !.pc = "returned"], events |-> <<>>]

\* _ensure_output_dir, line 14: out.mkdir(parents=True, exist_ok=True)
step_mkdir_output_dir(fsys, c) ==
    LET r == mkdir_parents(fsys, c.options.output_dir)
    IN  [fs |-> r.fs,
         call |-> IF r.ok THEN [c EXCEPT !.pc = "check"]
                  ELSE [c EXCEPT !.pc = "raised", !.exc = "OSError"],
         events |-> <<Event("mkdir", 0, c.options.output_dir, r.ok)>>]

\* _ensure_output_dir, lines 16-28
step_check_source_dirs(fsys, c) ==
    [fs |-> fsys,
     call |-> IF ~c.options.allow_overwrite_source
                 /\ output_dir_is_source_dir(fsys, c.options, c.files)
              THEN [c EXCEPT !.pc = "raised", !.exc = "ValueError"]
              ELSE [c EXCEPT !.pc = "open"],
     events |-> <<>>]

\* Lines 84-94: dest = build_output_name(...); Image.open(src)
step_open_source(fsys, c) ==
    LET src == c.files[c.i]
        o == c.options
        dest == build_output_name(src, o.output_dir, o.naming_mode, o.prefix,
                                  o.suffix, o.output_format)
        r == image_open(fsys, src)
    IN  [fs |-> fsys,
         call |-> IF r.ok
                  THEN [c EXCEPT !.pc = "prepare", !.dest = dest, !.img = r.img]
                  ELSE file_failed([c EXCEPT !.dest = dest]),
         events |-> <<Event("open", c.i, src, r.ok)>>]

\* Lines 96-107: convert, resize, dest.parent.mkdir(parents=True, exist_ok=True)
step_prepare_and_mkdir(fsys, c) ==
    LET r == mkdir_parents(fsys, Parent(c.dest))
    IN  [fs |-> r.fs,
         call |-> IF r.ok
                  THEN [c EXCEPT !.pc = "save", !.img = prepared_image(@, c.options)]
                  ELSE file_failed(c),
         events |-> <<Event("mkdir", c.i, Parent(c.dest), r.ok)>>]

\* Lines 108-115: img.save(dest); exported.append(dest); next file or return
step_save_image(fsys, c) ==
    LET r == image_save(fsys, c.dest, c.img)
    IN  [fs |-> r.fs,
         call |-> IF ~r.ok THEN file_failed(c) ELSE file_exported(c),
         events |-> <<Event("write", c.i, r.path, r.ok)>>]

\* The next step of call c, by its position.
export_step(fsys, c) ==
    CASE c.pc = "called" -> IF c.files = <<>> THEN step_return_empty(fsys, c)
                            ELSE step_mkdir_output_dir(fsys, c)
      [] c.pc = "check" -> step_check_source_dirs(fsys, c)
      [] c.pc = "open" -> step_open_source(fsys, c)
      [] c.pc = "prepare" -> step_prepare_and_mkdir(fsys, c)
      [] c.pc = "save" -> step_save_image(fsys, c)
      [] OTHER -> [fs |-> fsys, call |-> c, events |-> <<>>]

\* The call takes the step r: the first call of the two the model holds.
Takes(r) ==
    /\ fs' = r.fs
    /\ call' = r.call
    /\ io_log' = io_log \o r.events
    /\ UNCHANGED <<fs0, call2, io_log2, posVars, wmVars, rsVars, nmVars, imp, shVars>>

\* A mutation of ReturnEmpty: output_dir is made before the list is looked at.
ReturnEmptyAfterMkdir ==
    /\ call.pc = "called"
    /\ call.files = <<>>
    /\ LET r == step_mkdir_output_dir(fs, call)
       IN  Takes([r EXCEPT !.call.pc = IF @ = "check" THEN "returned" ELSE @])

ReturnEmpty ==
    /\ call.pc = "called"
    /\ call.files = <<>>
    /\ Takes(step_return_empty(fs, call))

MkdirOutputDir ==
    /\ call.pc = "called"
    /\ call.files # <<>>
    /\ Takes(step_mkdir_output_dir(fs, call))

CheckSourceDirs ==
    /\ call.pc = "check"
    /\ Takes(step_check_source_dirs(fs, call))

OpenSource ==
    /\ call.pc = "open"
    /\ Takes(step_open_source(fs, call))

PrepareAndMkdir ==
    /\ call.pc = "prepare"
    /\ Takes(step_prepare_and_mkdir(fs, call))

SaveImage ==
    /\ call.pc = "save"
    /\ Takes(step_save_image(fs, call))

\* The filesystem the calls start from:
\*   /s/a.jpg (RGB), /s/b.png (RGBA), /t/a.tif (L), /l -> /s,
\*   /o (a directory) and /o/b.jpg (a directory in a destination's place).
DIR_S == << <<"s">> >>
DIR_T == << <<"t">> >>
DIR_O == << <<"o">> >>
DIR_L == << <<"l">> >>
DIR_N == << <<"n">> >>
FILE_SA == << <<"s">>, <<"a", ".jpg">> >>
FILE_SB == << <<"s">>, <<"b", ".png">> >>
FILE_TA == << <<"t">>, <<"a", ".tif">> >>
FILE_NC == << <<"n">>, <<"c", ".jpg">> >>

SourceImage(id, format, mode, w, h) ==
    [kind |-> "image", id |-> id, format |-> format, mode |-> mode, w |-> w, h |-> h,
     quality |-> -1]

World ==
    [dirs |-> {<<>>, DIR_S, DIR_T, DIR_O, Append(DIR_O, <<"b", ".jpg">>)},
     files |-> (FILE_SA :> SourceImage("A", "JPEG", "RGB", 4, 2))
            @@ (FILE_SB :> SourceImage("B", "PNG", "RGBA", 2, 2))
            @@ (FILE_TA :> SourceImage("C", "TIFF", "L", 3, 3)),
     links |-> (DIR_L :> DIR_S)]

\* The input paths: three images and a path under a directory that is missing.
SourceCandidates == {FILE_SA, FILE_SB, FILE_TA, FILE_NC}

FileLists == UNION {[1..n -> SourceCandidates] : n \in 0..MaxFiles}

\* output_dir: a directory apart, a source directory, a symlink to it, missing
\* directories (one and two levels), and a path that is a regular file.
OutputDirs == {DIR_O, DIR_S, DIR_L, DIR_N, Append(DIR_N, <<"sub">>), FILE_SA}

\* naming_mode with its prefix and suffix; a prefix may hold separators.
Namings ==
    { [naming_mode |-> "keep", prefix |-> <<"wm_">>, suffix |-> <<"_wm">>],
      [naming_mode |-> "prefix", prefix |-> <<"wm_">>, suffix |-> <<"_wm">>],
      [naming_mode |-> "prefix", prefix |-> <<"..", "/", "s", "/">>, suffix |-> <<>>],
      [naming_mode |-> "suffix", prefix |-> <<"wm_">>, suffix |-> <<"_wm">>] }

ExportOptions ==
    { [output_dir |-> out, output_format |-> fmt, naming_mode |-> nm.naming_mode,
       prefix |-> nm.prefix, suffix |-> nm.suffix, jpeg_quality |-> 90,
       resize_mode |-> "none", resize_value |-> <<>>, keep_aspect_ratio |-> TRUE,
       allow_overwrite_source |-> allow] :
        out \in OutputDirs, fmt \in {"jpeg", "png"}, nm \in Namings,
        allow \in BOOLEAN }

\* Every jpeg_quality from -1 to MaxQuality, and resizes of each mode, for
\* both formats, into a directory apart.
EncodingOptions ==
    { [output_dir |-> DIR_O, output_format |-> fmt, naming_mode |-> "keep",
       prefix |-> <<>>, suffix |-> <<>>, jpeg_quality |-> q,
       resize_mode |-> rs[1], resize_value |-> rs[2], keep_aspect_ratio |-> TRUE,
       allow_overwrite_source |-> FALSE] :
        fmt \in {"jpeg", "png"}, q \in -1..MaxQuality,
        rs \in { <<"none", <<>> >>, <<"by_width", <<3>> >>, <<"by_percent", <<50>> >> } }

\* output_format strings in other letter cases, and strings that name
\* neither format.
OutputFormats == {"jpeg", "png", "JPEG", "PNG", "Jpeg", "jpg", "gif"}

FormatOptions ==
    { [output_dir |-> DIR_O, output_format |-> fmt, naming_mode |-> nm.naming_mode,
       prefix |-> nm.prefix, suffix |-> nm.suffix, jpeg_quality |-> 90,
       resize_mode |-> "none", resize_value |-> <<>>, keep_aspect_ratio |-> TRUE,
       allow_overwrite_source |-> FALSE] :
        fmt \in OutputFormats, nm \in Namings }

\* export_images(files, options) as it is entered.
NewCall(files, options) ==
    [pc |-> "called", files |-> files, options |-> options, i |-> 1,
     exported |-> <<>>, dest |-> <<>>, img |-> NoImage, exc |-> ""]

ExInit ==
    /\ fs = World
    /\ fs0 = World
    /\ call \in [pc : {"called"}, files : FileLists, options : ExportOptions,
                 i : {1}, exported : {<<>>}, dest : {<<>>}, img : {NoImage},
                 exc : {""}]
             \cup [pc : {"called"}, files : {<<FILE_SB, FILE_TA>>, <<FILE_SA>>},
                   options : EncodingOptions \cup FormatOptions,
                   i : {1}, exported : {<<>>}, dest : {<<>>}, img : {NoImage},
                   exc : {""}]
    /\ io_log = <<>>
    /\ call2 = [pc |-> "idle"]
    /\ io_log2 = <<>>

EmptyFs == [dirs |-> {<<>>}, files |-> <<>>, links |-> <<>>]

ExIdle ==
    /\ fs = EmptyFs
    /\ fs0 = EmptyFs
    /\ call = [pc |-> "idle"]
    /\ io_log = <<>>
    /\ call2 = [pc |-> "idle"]
    /\ io_log2 = <<>>

(***************************************************************************)
(* Two export_images calls at the same time                                *)
(*                                                                         *)
(* Two threads or processes each run one call on the same filesystem; the  *)
(* steps of the two interleave in every order.  A step is one file         *)
(* operation, taken as a whole: mkdir(parents=True, exist_ok=True) gives   *)
(* the same result when another mkdir of a shared ancestor falls between   *)
(* its system calls, and nothing in the program deletes a path.            *)
(***************************************************************************)

Finished(c) == c.pc \in {"returned", "raised"}

RECURSIVE run_alone(_, _, _)
\* export_images run from c to its end with no other call around:
\* [fs, call, log].
run_alone(fsys, c, log) ==
    IF Finished(c) THEN [fs |-> fsys, call |-> c, log |-> log]
    ELSE LET r == export_step(fsys, c)
         IN  run_alone(r.fs, r.call, log \o r.events)

\* A second call whose file operations never reach the disk.
Takes2_discards_write(r) ==
    /\ fs' = fs
    /\ call2' = r.call
    /\ io_log2' = io_log2 \o r.events
    /\ UNCHANGED <<fs0, call, io_log, posVars, wmVars, rsVars, nmVars, imp, shVars>>

\* The second call takes the step r.
Takes2(r) ==
    /\ fs' = r.fs
    /\ call2' = r.call
    /\ io_log2' = io_log2 \o r.events
    /\ UNCHANGED <<fs0, call, io_log, posVars, wmVars, rsVars, nmVars, imp, shVars>>

ExportStep1 == ~Finished(call) /\ Takes(export_step(fs, call))

ExportStep2 == ~Finished(call2) /\ Takes2(export_step(fs, call2))

\* The calls drawn: one or two of the three images, into /o, into the source
\* directory /s, through the link /l, into directories to be made, and into
\* a directory that has the name of an image.
ConcFileLists ==
    { <<FILE_SA>>, <<FILE_SB>>, <<FILE_TA>>, <<FILE_SA, FILE_SB>>, <<FILE_TA, FILE_SB>> }

ConcOutputDirs ==
    { DIR_O, DIR_S, DIR_L, DIR_N, Append(DIR_N, <<"sub">>),
      Append(DIR_O, <<"a", ".jpg">>) }

ConcOptions ==
    { [output_dir |-> out, output_format |-> fmt, naming_mode |-> "keep",
       prefix |-> <<>>, suffix |-> <<>>, jpeg_quality |-> 90,
       resize_mode |-> "none", resize_value |-> <<>>, keep_aspect_ratio |-> TRUE,
       allow_overwrite_source |-> TRUE] :
        out \in ConcOutputDirs, fmt \in {"jpeg", "png"} }

ConcCalls == {NewCall(files, options) : files \in ConcFileLists, options \in ConcOptions}

SourceSet(c) == {c.files[k] : k \in DOMAIN c.files}

\* Two calls with different output_dir values and disjoint sets of sources.
ConcInit ==
    /\ fs = World
    /\ fs0 = World
    /\ call \in ConcCalls
    /\ call2 \in ConcCalls
    /\ call.options.output_dir # call2.options.output_dir
    /\ SourceSet(call) \cap SourceSet(call2) = {}
    /\ io_log = <<>>
    /\ io_log2 = <<>>

(***************************************************************************)
(* Importer                                                                *)
(*                                                                         *)
(* discover_inputs takes path strings, absolute or relative to the current *)
(* directory, and returns the sorted list of the image files it found and  *)
(* the common root of the directories it looked at.                        *)
(***************************************************************************)

\* Longest list of input paths drawn for discover_inputs.
MaxPaths == 3

\* Path.suffix: the last dot part of the last component, "" when none.
Suffix(path) ==
    IF path = <<>> THEN ""
    ELSE LET name == path[Len(path)]
         IN  IF Len(name) > 1 /\ name[Len(name)] \in SuffixFragments
             THEN name[Len(name)]
             ELSE ""

\* A mutation of is_supported_input: the suffix is compared as it is written.
is_supported_input_case_sensitive(path) == Suffix(path) \in SUPPORTED_INPUT_EXTS

\* formats.py: path.suffix.lower() in SUPPORTED_INPUT_EXTS
is_supported_input(path) == Lower(Suffix(path)) \in SUPPORTED_INPUT_EXTS

\* Path.is_dir() and Path.is_file(): symbolic links are followed.
is_dir(fsys, path) ==
    LET at == lookup(fsys, path) IN at.err = "" /\ IsDir(fsys, at.path)

is_file(fsys, path) ==
    LET at == lookup(fsys, path) IN at.err = "" /\ IsFile(fsys, at.path)

\* The component names of the filesystems below in the order of str.__lt__
\* (code points: upper case before lower case, "s" before "s.x" before "sub").
NameOrder ==
    << <<"B", ".PNG">>, <<"a", ".jpg">>, <<"a", ".tif">>, <<"c", ".tif">>,
       <<"d", ".jpg">>, <<"e", ".bmp">>, <<"gone", ".jpg">>, <<"k", ".jpg">>,
       <<"l">>, <<"ld">>, <<"missing">>, <<"notes", ".txt">>, <<"out", ".png">>,
       <<"s">>,
       <<"s", ".x">>, <<"sub">>, <<"t">> >>

NameRank(name) == CHOOSE k \in DOMAIN NameOrder : NameOrder[k] = name

RECURSIVE PathLess(_, _)
\* PurePath.__lt__: the component sequences compared lexicographically.
PathLess(p, q) ==
    IF q = <<>> THEN FALSE
    ELSE IF p = <<>> THEN TRUE
    ELSE IF Head(p) = Head(q) THEN PathLess(Tail(p), Tail(q))
    ELSE NameRank(Head(p)) < NameRank(Head(q))

PathGreater(p, q) == PathLess(q, p)

RECURSIVE SetToSeq(_)
SetToSeq(S) ==
    IF S = {} THEN <<>>
    ELSE LET x == CHOOSE y \in S : TRUE IN <<x>> \o SetToSeq(S \ {x})

\* folder.rglob("*"): every entry below folder, at any depth; a symbolic link
\* is an entry, a linked directory is not descended into.  The order is the
\* directory order of the filesystem; here names descending.
rglob(fsys, folder) ==
    LET entries == { q \in fsys.dirs \cup DOMAIN fsys.files \cup DOMAIN fsys.links :
                        /\ Len(q) > Len(folder)
                        /\ SubSeq(q, 1, Len(folder)) = folder }
    IN  SortSeq(SetToSeq(entries), PathGreater)

\* _iter_folder_images
_iter_folder_images(fsys, folder) ==
    SelectSeq(rglob(fsys, folder), LAMBDA p : is_file(fsys, p) /\ is_supported_input(p))

RECURSIVE add_unique(_, _)
\* for f in ...: if f not in seen: unique.append(f); seen.add(f)
add_unique(unique, found) ==
    IF found = <<>> THEN unique
    ELSE LET f == Head(found)
             seen == {unique[k] : k \in DOMAIN unique}
         IN  add_unique(IF f \in seen THEN unique ELSE Append(unique, f), Tail(found))

\* The length of the longest common prefix of two paths.
CommonLen(p, q) ==
    LET same == {k \in 0..Min(Len(p), Len(q)) : SubSeq(p, 1, k) = SubSeq(q, 1, k)}
    IN  CHOOSE k \in same : \A j \in same : j <= k

\* A mutation of commonpath: the first path of the list is returned.
commonpath_first_only(roots) == roots[1]

RECURSIVE commonpath(_)
\* os.path.commonpath of a non-empty list of absolute paths.
commonpath(roots) ==
    IF Len(roots) = 1 THEN roots[1]
    ELSE LET rest == commonpath(Tail(roots))
         IN  SubSeq(rest, 1, CommonLen(roots[1], rest))

\* A mutation of visit_input: a root is recorded for supported files only.
visit_input_root_of_images_only(fsys, cwd, raw, acc) ==
    LET p == resolve(fsys, JoinPath(cwd, raw))
    IN  IF is_dir(fsys, p)
        THEN [unique |-> add_unique(acc.unique, _iter_folder_images(fsys, p)),
              roots |-> Append(acc.roots, p)]
        ELSE IF is_file(fsys, p) /\ is_supported_input(p)
        THEN [unique |-> add_unique(acc.unique, <<p>>),
              roots |-> Append(acc.roots, Parent(p))]
        ELSE acc

\* Lines 30-41: one turn of the loop over the input paths.
visit_input(fsys, cwd, raw, acc) ==
    LET p == resolve(fsys, JoinPath(cwd, raw))
    IN  IF is_dir(fsys, p)
        THEN [unique |-> add_unique(acc.unique, _iter_folder_images(fsys, p)),
              roots |-> Append(acc.roots, p)]
        ELSE IF is_file(fsys, p)
        THEN [unique |-> IF is_supported_input(p)
                         THEN add_unique(acc.unique, <<p>>) ELSE acc.unique,
              roots |-> Append(acc.roots, Parent(p))]
        ELSE acc

RECURSIVE visit_inputs(_, _, _, _)
visit_inputs(fsys, cwd, paths, acc) ==
    IF paths = <<>> THEN acc
    ELSE visit_inputs(fsys, cwd, Tail(paths), visit_input(fsys, cwd, Head(paths), acc))

\* A mutation of sort_unique: the list is left in the order of discovery.
sort_unique_skipped(unique) == unique

\* unique.sort()
sort_unique(unique) == SortSeq(unique, PathLess)

\* discover_inputs
discover_inputs(fsys, cwd, paths) ==
    LET acc == visit_inputs(fsys, cwd, paths, [unique |-> <<>>, roots |-> <<>>])
    IN  [files |-> sort_unique(acc.unique),
         common_root |-> IF acc.roots = <<>> THEN cwd ELSE commonpath(acc.roots)]

\* The filesystem discover_inputs looks at:
\*   /s/a.jpg  /s/B.PNG  /s/notes.txt  /s/sub/c.tif  /t/a.tif  /s.x/e.bmp
\*   /t/d.jpg (a directory)
\*   /l -> /s   /s/ld -> /t   /s/k.jpg -> /t/a.tif   /t/gone.jpg -> /missing
DIR_SUB == Append(DIR_S, <<"sub">>)
DIR_SX == << <<"s", ".x">> >>
DIR_MISSING == << <<"missing">> >>
FILE_B == Append(DIR_S, <<"B", ".PNG">>)
FILE_NOTES == Append(DIR_S, <<"notes", ".txt">>)
FILE_C == Append(DIR_SUB, <<"c", ".tif">>)
FILE_E == Append(DIR_SX, <<"e", ".bmp">>)
LINK_K == Append(DIR_S, <<"k", ".jpg">>)
LINK_LD == Append(DIR_S, <<"ld">>)
LINK_GONE == Append(DIR_T, <<"gone", ".jpg">>)

ImportWorld ==
    [dirs |-> {<<>>, DIR_S, DIR_SUB, DIR_T, DIR_SX, Append(DIR_T, <<"d", ".jpg">>)},
     files |-> (FILE_SA :> SourceImage("A", "JPEG", "RGB", 4, 2))
            @@ (FILE_B :> SourceImage("B", "PNG", "RGBA", 2, 2))
            @@ (FILE_NOTES :> [NoImage EXCEPT !.kind = "text"])
            @@ (FILE_C :> SourceImage("C", "TIFF", "L", 3, 3))
            @@ (FILE_TA :> SourceImage("D", "TIFF", "L", 3, 3))
            @@ (FILE_E :> SourceImage("E", "BMP", "RGB", 1, 1)),
     links |-> (DIR_L :> DIR_S) @@ (LINK_LD :> DIR_T) @@ (LINK_K :> FILE_TA)
            @@ (LINK_GONE :> DIR_MISSING)]

\* The input strings: folders, a folder inside another, a linked folder,
\* files given directly, through a link and "..", by a relative name, a file
\* link, a file that is no image, a path that does not exist.
InputPaths ==
    { <<"/", "s">>, <<"/", "t">>, <<"/", "l">>, <<"/", "s", ".x">>,
      <<"/", "s", "/", "sub">>,
      <<"/", "s", "/", "a", ".jpg">>,
      <<"/", "l", "/", "sub", "/", "..", "/", "a", ".jpg">>,
      <<"B", ".PNG">>,
      <<"/", "s", "/", "k", ".jpg">>,
      <<"/", "s", "/", "notes", ".txt">>,
      <<"/", "missing">> }

PathLists == UNION {[1..n -> InputPaths] : n \in 0..MaxPaths}

ImpIdle == imp = [pc |-> "idle"]

ImpInit ==
    /\ fs = ImportWorld
    /\ fs0 = ImportWorld
    /\ call = [pc |-> "idle"]
    /\ io_log = <<>>
    /\ call2 = [pc |-> "idle"]
    /\ io_log2 = <<>>
    /\ imp \in [pc : {"called"}, paths : PathLists, cwd : {DIR_S, DIR_T},
                files : {<<>>}, common_root : {<<>>}]
    /\ imp.cwd = DIR_T => Len(imp.paths) < MaxPaths

DiscoverInputs ==
    /\ imp.pc = "called"
    /\ LET r == discover_inputs(fs, imp.cwd, imp.paths)
       IN  imp' = [imp EXCEPT !.pc = "returned", !.files = r.files,
                              !.common_root = r.common_root]
    /\ UNCHANGED <<exVars, posVars, wmVars, rsVars, nmVars, shVars>>

(***************************************************************************)
(* _compute_new_size and build_output_name on their own                    *)
(***************************************************************************)

\* Largest image side and largest resize_value of the full sweep.
MaxSide == 5
MaxResize == 6

ResizeMode == {"none", "by_width", "by_height", "by_percent"}

ResizeCall(w, h, mode, value, keep) ==
    [img |-> [w |-> w, h |-> h],
     options |-> [resize_mode |-> mode, resize_value |-> value,
                  keep_aspect_ratio |-> keep]]

\* Every small size with every small value, None included.
ResizeSweep ==
    { ResizeCall(w, h, mode, value, keep) :
        w \in 1..MaxSide, h \in 1..MaxSide, mode \in ResizeMode,
        value \in {<<>>} \cup {<<v>> : v \in -2..MaxResize}, keep \in BOOLEAN }

\* Larger sizes: the spec's 200x50, sizes whose float products fall short,
\* and percentages below, at and above 100.
ResizeSamples ==
    { ResizeCall(sz[1], sz[2], mode, <<v>>, keep) :
        sz \in { <<200, 50>>, <<250, 120>>, <<3, 15>>, <<15, 3>>, <<7, 7>>,
                 <<25, 25>> },
        mode \in ResizeMode, v \in {-5, 0, 49, 61, 100, 116}, keep \in BOOLEAN }

RsIdle == rs_args = "idle" /\ rs_ret = [done |-> TRUE, size |-> <<0, 0>>]

RsInit ==
    /\ rs_args \in ResizeSweep \cup ResizeSamples
    /\ rs_ret = [done |-> FALSE, size |-> <<0, 0>>]

ComputeNewSize ==
    /\ ~rs_ret.done
    /\ rs_ret' = [done |-> TRUE, size |-> _compute_new_size(rs_args.img, rs_args.options)]
    /\ UNCHANGED <<rs_args, posVars, wmVars, exVars, nmVars, imp, shVars>>

NamingMode == {"keep", "prefix", "suffix"}

\* Source files of several extensions and directories, one without suffix,
\* one with an upper-case suffix, one whose name is only a dot name.
NamingSources ==
    { FILE_SA, FILE_TA,
      << <<"a">>, <<"b">>, <<"img", ".tif">> >>,
      << <<"s">>, <<"noext">> >> ,
      << <<"s">>, <<"B", ".PNG">> >>,
      << <<"s">>, <<".png">> >>,
      << <<"s">>, <<"x", ".tif", ".jpg">> >> }

NamingCalls ==
    [src_file : NamingSources,
     out_dir : {DIR_O, Append(DIR_N, <<"sub">>), <<>>},
     mode : NamingMode,
     prefix : {<<>>, <<"wm_">>, <<"..", "/", "s", "/">>},
     suffix : {<<>>, <<"_wm">>},
     out_ext : {"jpeg", "png", "JPEG", "gif"}]

NmIdle == nm_args = "idle" /\ nm_ret = [done |-> TRUE, path |-> <<>>]

NmInit == nm_args \in NamingCalls /\ nm_ret = [done |-> FALSE, path |-> <<>>]

BuildOutputName ==
    /\ ~nm_ret.done
    /\ nm_ret' = [done |-> TRUE,
                  path |-> build_output_name(nm_args.src_file, nm_args.out_dir,
                                             nm_args.mode, nm_args.prefix,
                                             nm_args.suffix, nm_args.out_ext)]
    /\ UNCHANGED <<nm_args, posVars, wmVars, exVars, rsVars, imp, shVars>>

(***************************************************************************)
(* The command-line tool: WatermarkTool.process_directory                  *)
(***************************************************************************)

\* The member names of the GridPosition enum (watermarking/types.py).
GridPositionNames ==
    { "TOP_LEFT", "TOP_CENTER", "TOP_RIGHT",
      "CENTER_LEFT", "CENTER", "CENTER_RIGHT",
      "BOTTOM_LEFT", "BOTTOM_CENTER", "BOTTOM_RIGHT" }

\* The members the dictionary of _convert_position_str_to_enum names; the
\* dictionary is built on every call, before the lookup.
position_map_members ==
    { "TOP_LEFT", "TOP_CENTER", "TOP_RIGHT",
      "MIDDLE_LEFT", "CENTER", "MIDDLE_RIGHT",
      "BOTTOM_LEFT", "BOTTOM_CENTER", "BOTTOM_RIGHT" }

\* TextWatermarkOptions(**kwargs): the dataclass constructor raises TypeError
\* for a keyword that is not a declared field.
new_options(kwargs) ==
    [ok |-> DOMAIN kwargs \subseteq DeclaredFields, options |-> kwargs]

\* str.upper() on the extensions of SUPPORTED_INPUT_EXTS.
Upper(str) ==
    CASE str = ".jpg" -> ".JPG"
      [] str = ".jpeg" -> ".JPEG"
      [] str = ".png" -> ".PNG"
      [] str = ".bmp" -> ".BMP"
      [] str = ".tif" -> ".TIF"
      [] str = ".tiff" -> ".TIFF"
      [] OTHER -> str

\* Path.exists(): symbolic links are followed.
exists(fsys, path) == is_dir(fsys, path) \/ is_file(fsys, path)

\* Path.mkdir(exist_ok=True): one os.mkdir; an existing directory is accepted,
\* anything else in the way (or a missing parent) raises.  [ok, fs]
mkdir_exist_ok(fsys, path) ==
    LET at == lookup(fsys, path)
    IN  IF at.err # "" \/ IsFile(fsys, at.path) \/ ~IsDir(fsys, Parent(at.path))
        THEN [ok |-> FALSE, fs |-> fsys]
        ELSE [ok |-> TRUE, fs |-> [fsys EXCEPT !.dirs = @ \cup {at.path}]]

\* input_dir.glob("*" + pattern): the entries of the directory itself whose
\* name ends with the pattern, upper and lower case told apart; a directory
\* and a dangling symbolic link are entries like any other.
glob(fsys, input_dir, pattern) ==
    LET dir == lookup(fsys, input_dir).path
    IN  { Append(input_dir, q[Len(q)]) :
            q \in { e \in fsys.dirs \cup DOMAIN fsys.files \cup DOMAIN fsys.links :
                      /\ Len(e) = Len(dir) + 1
                      /\ SubSeq(e, 1, Len(dir)) = dir
                      /\ Suffix(e) = pattern } }

\* The lists image_files can be (lines 190-193): supported_formats is a set
\* and a directory listing has no fixed order, so the patterns come in any
\* order and so do the entries of one pattern; the entries of one pattern
\* are next to each other.
image_file_lists(fsys, input_dir) ==
    LET found == UNION { glob(fsys, input_dir, ext) \cup glob(fsys, input_dir, Upper(ext)) :
                            ext \in SUPPORTED_INPUT_EXTS }
        n == Cardinality(found)
    IN  { s \in [1..n -> found] :
            /\ \A i, j \in 1..n : s[i] = s[j] => i = j
            /\ \A i, j, k \in 1..n :
                  (i < j /\ j < k /\ Suffix(s[i]) = Suffix(s[k])) =>
                      Suffix(s[j]) = Suffix(s[i]) }

\* The files that carry an EXIF date.
ExifDated == { FILE_SA, FILE_E }

\* extract_exif_date: the date of the EXIF tags, or None ("") when the file
\* has none or cannot be opened (the exception is caught and printed).
extract_exif_date(fsys, image_path) ==
    LET at == lookup(fsys, image_path)
    IN  IF at.err = "" /\ IsFile(fsys, at.path) /\ at.path \in ExifDated
        THEN "2023-12-25"
        ELSE ""

\* image_file.stat(): raises when the path leads nowhere.
stat(fsys, path) == [ok |-> exists(fsys, path), mtime |-> "2024-01-01"]

Failed(exc, fsys) == [printed |-> "Error processing", exc |-> exc, fs |-> fsys]

\* add_watermark: the whole body is inside try/except Exception, which prints
\* the error; nothing is raised to the caller.
add_watermark(fsys, tool, image_path, output_path, watermark_text) ==
    LET opened == image_open(fsys, image_path)
        made == new_options([text |-> watermark_text, font_size |-> tool.font_size,
                             color |-> tool.color, opacity |-> 100,
                             position |-> tool.position, margin |-> 20,
                             font_name |-> tool.font_name])
    IN  IF ~opened.ok THEN Failed("OSError", fsys)
        ELSE IF ~(position_map_members \subseteq GridPositionNames)
        THEN Failed("AttributeError", fsys)
        ELSE IF ~made.ok THEN Failed("TypeError", fsys)
        ELSE LET r == apply_text_watermark(
                          <<InputImage(opened.img.mode, opened.img.w, opened.img.h)>>,
                          1, made.options, {})
                 saved == image_save(fsys, output_path, opened.img)
             IN  IF r.ret.kind = "raised" THEN Failed(r.ret.exc, fsys)
                 ELSE IF ~saved.ok THEN Failed("OSError", fsys)
                 ELSE [printed |-> "Watermarked", exc |-> "", fs |-> saved.fs]

\* output_dir = input_dir / f"{input_dir.name}_watermark"
cli_output_dir(input_dir) ==
    Append(input_dir, Append(input_dir[Len(input_dir)], "_watermark"))

CliTakes(fsys, c) ==
    /\ fs' = fsys
    /\ cli' = c
    /\ UNCHANGED <<fs0, call, io_log, call2, io_log2, posVars, wmVars, rsVars, nmVars,
                   imp, gui, dlg>>

\* Lines 175-205: the checks of the input path, the output directory, the
\* list of image files.
ListDirectory ==
    /\ cli.pc = "called"
    /\ IF ~exists(fs, cli.input_path)
       THEN CliTakes(fs, [cli EXCEPT !.pc = "returned", !.message = "does not exist"])
       ELSE IF ~is_dir(fs, cli.input_path)
       THEN CliTakes(fs, [cli EXCEPT !.pc = "returned", !.message = "is not a directory"])
       ELSE LET made == mkdir_exist_ok(fs, cli_output_dir(cli.input_path))
            IN  IF ~made.ok
                THEN CliTakes(fs, [cli EXCEPT !.pc = "raised", !.exc = "FileExistsError"])
                ELSE \E files \in image_file_lists(made.fs, cli.input_path) :
                       IF files = <<>>
                       THEN CliTakes(made.fs, [cli EXCEPT !.pc = "returned",
                                                          !.message = "No supported image files"])
                       ELSE CliTakes(made.fs, [cli EXCEPT !.pc = "date",
                                                          !.image_files = files,
                                                          !.message = "Found"])

\* Lines 207-218: the watermark text of image_files[i], the EXIF date or the
\* date of the file's modification time.
DateOfImage ==
    /\ cli.pc = "date"
    /\ LET image_file == cli.image_files[cli.i]
           date_str == extract_exif_date(fs, image_file)
           st == stat(fs, image_file)
       IN  IF date_str # ""
           THEN CliTakes(fs, [cli EXCEPT !.pc = "watermark", !.watermark_text = date_str])
           ELSE IF st.ok
           THEN CliTakes(fs, [cli EXCEPT !.pc = "watermark", !.watermark_text = st.mtime])
           ELSE CliTakes(fs, [cli EXCEPT !.pc = "raised", !.exc = "FileNotFoundError"])

\* Lines 220-228: add_watermark on image_files[i], the count, the next image
\* or the end of the loop.
AddWatermark ==
    /\ cli.pc = "watermark"
    /\ LET image_file == cli.image_files[cli.i]
           output_file == Append(cli_output_dir(cli.input_path), image_file[Len(image_file)])
           r == add_watermark(fs, cli.tool, image_file, output_file, cli.watermark_text)
       IN  CliTakes(r.fs,
               [cli EXCEPT !.attempted = Append(@, image_file),
                           !.printed = Append(@, [file |-> image_file, msg |-> r.printed]),
                           !.processed_count = @ + 1,
                           !.i = @ + 1,
                           !.pc = IF cli.i = Len(cli.image_files) THEN "returned" ELSE "date",
                           !.message = IF cli.i = Len(cli.image_files)
                                       THEN "Successfully processed" ELSE @])

\* WatermarkTool(font_size, color, position, font_name)
CliTools ==
    [font_size : {24}, color : {"white"}, position : {"bottom-right", "center"},
     font_name : {"", "Arial"}]

\* A directory of images, a linked one, one with a dangling link and a
\* directory named like an image, an empty one, a file, a missing path.
CliInputPaths ==
    { DIR_S, DIR_T, DIR_L, DIR_SX, DIR_SUB, Append(DIR_T, <<"d", ".jpg">>), FILE_SA,
      DIR_MISSING }

FsAlone(world) ==
    /\ fs = world
    /\ fs0 = world
    /\ call = [pc |-> "idle"]
    /\ io_log = <<>>
    /\ call2 = [pc |-> "idle"]
    /\ io_log2 = <<>>

CliIdle == cli = [pc |-> "idle"]

CliInit ==
    /\ FsAlone(ImportWorld)
    /\ cli \in [pc : {"called"}, tool : CliTools, input_path : CliInputPaths,
                image_files : {<<>>}, i : {1}, watermark_text : {""},
                attempted : {<<>>}, printed : {<<>>}, processed_count : {0},
                message : {""}, exc : {""}]

(***************************************************************************)
(* The window: WatermarkGUI (watermark_gui.py)                             *)
(*                                                                         *)
(* current_image_index counts from 0 as in the code; image_paths is a      *)
(* sequence, so image_paths[index + 1] is the code's image_paths[index].   *)
(* watermark_opacity, a float of the scale 0.1 .. 1.0, is kept in          *)
(* hundredths.                                                             *)
(***************************************************************************)

\* Most images the list holds.
MaxImages == 3

\* self.supported_formats of the window (line 624).
gui_supported_formats == {".jpg", ".jpeg", ".png", ".bmp", ".gif", ".tiff"}

\* A PIL image held by the window: the file it was opened from and the
\* watermarks drawn on it since.  NoPicture is None.
NoPicture == [file |-> NoImage, marks |-> <<>>]

\* The image Image.open gives for a file record; a file the window wrote
\* keeps the watermarks it was written with.
Picture(img) ==
    [file |-> [f \in DOMAIN NoImage |-> img[f]],
     marks |-> IF "marks" \in DOMAIN img THEN img.marks ELSE <<>>]

\* The file record image.save writes for a picture.
SavedFile(pic) ==
    [f \in DOMAIN NoImage \cup {"marks"} |->
        IF f = "marks" THEN pic.marks ELSE pic.file[f]]

\* _display_image: the image of the selected path is opened from disk and
\* becomes current_image; a failure is shown and leaves current_image.
_display_image(fsys, g) ==
    IF g.current_image_index >= 0 /\ g.current_image_index < Len(g.image_paths)
    THEN LET opened == image_open(fsys, g.image_paths[g.current_image_index + 1])
         IN  IF opened.ok THEN [g EXCEPT !.current_image = Picture(opened.img)]
             ELSE [g EXCEPT !.message = "display_error"]
    ELSE g

\* handle_imported_files (lines 982-1018): discover_inputs, the filter on
\* the window's formats, the list extended, the first image selected.
handle_imported_files(fsys, g, cwd, file_paths) ==
    LET found == discover_inputs(fsys, cwd, file_paths).files
        new_images == SelectSeq(found, LAMBDA p : Lower(Suffix(p)) \in gui_supported_formats)
        extended == [g EXCEPT !.image_paths = @ \o new_images, !.message = "import_ok"]
    IN  IF new_images = <<>> THEN [g EXCEPT !.message = "import_none"]
        ELSE IF g.current_image_index = -1
        THEN _display_image(fsys, [extended EXCEPT !.current_image_index = 0,
                                                   !.applied = "no"])
        ELSE extended

\* A mutation of _select_image: any index is taken.
_select_image_unchecked(fsys, g, index) ==
    _display_image(fsys, [g EXCEPT !.current_image_index = index, !.applied = "no"])

\* _select_image (lines 970-976)
_select_image(fsys, g, index) ==
    IF 0 <= index /\ index < Len(g.image_paths)
    THEN _display_image(fsys, [g EXCEPT !.current_image_index = index, !.applied = "no"])
    ELSE g

\* _next_image (lines 1146-1151)
_next_image(fsys, g) ==
    IF g.image_paths # <<>> /\ g.current_image_index < Len(g.image_paths) - 1
    THEN _display_image(fsys, [g EXCEPT !.current_image_index = @ + 1, !.applied = "no"])
    ELSE g

\* _prev_image (lines 1153-1158)
_prev_image(fsys, g) ==
    IF g.image_paths # <<>> /\ g.current_image_index > 0
    THEN _display_image(fsys, [g EXCEPT !.current_image_index = @ - 1, !.applied = "no"])
    ELSE g

\* self.watermark_position.upper().replace('-', '_')
position_member_name(position) ==
    CASE position = "top-left" -> "TOP_LEFT"
      [] position = "top-center" -> "TOP_CENTER"
      [] position = "top-right" -> "TOP_RIGHT"
      [] position = "center-left" -> "CENTER_LEFT"
      [] position = "center" -> "CENTER"
      [] position = "center-right" -> "CENTER_RIGHT"
      [] position = "bottom-left" -> "BOTTOM_LEFT"
      [] position = "bottom-center" -> "BOTTOM_CENTER"
      [] position = "bottom-right" -> "BOTTOM_RIGHT"
      [] OTHER -> position

\* _apply_watermark (lines 1023-1049): the options are built from the
\* controls, apply_text_watermark replaces current_image, _display_image
\* refreshes the preview, a message box reports success; any exception is
\* shown as an error instead.
_apply_watermark(fsys, g) ==
    IF g.current_image # NoPicture /\ g.current_image_index >= 0
    THEN LET tried == [g EXCEPT !.applied = IF g.entry = <<>> THEN "empty" ELSE "text"]
             made == new_options([text |-> g.entry, font |-> g.watermark_font,
                                  color |-> g.watermark_color,
                                  opacity |-> g.watermark_opacity,
                                  position |-> position_member_name(g.watermark_position),
                                  margin |-> g.watermark_margin])
             pic == g.current_image
             r == apply_text_watermark(<<InputImage(pic.file.mode, pic.file.w, pic.file.h)>>,
                                       1, made.options, {})
         IN  IF position_member_name(g.watermark_position) \notin GridPositionNames
             THEN [tried EXCEPT !.message = "apply_error"]
             ELSE IF ~made.ok THEN [tried EXCEPT !.message = "apply_error"]
             ELSE IF r.ret.kind = "raised" THEN [tried EXCEPT !.message = "apply_error"]
             ELSE [_display_image(fsys,
                       [tried EXCEPT !.current_image =
                                        [pic EXCEPT !.marks = Append(@, made.options)]])
                     EXCEPT !.message = "apply_success"]
    ELSE g

\* _save_image (lines 1051-1083): current_image is written to the path the
\* user chose in the file dialog; <<>> is a cancelled dialog.
_save_image(fsys, g, file_path) ==
    IF g.current_image # NoPicture /\ g.current_image_index >= 0 /\ file_path # <<>>
    THEN LET saved == image_save(fsys, file_path, SavedFile(g.current_image))
         IN  IF saved.ok
             THEN [fs |-> saved.fs,
                   gui |-> [g EXCEPT !.message = "saved", !.saved = g.current_image]]
             ELSE [fs |-> fsys, gui |-> [g EXCEPT !.message = "save_error"]]
    ELSE [fs |-> fsys, gui |-> g]

GuiTakes(fsys, g) ==
    /\ fs' = fsys
    /\ gui' = g
    /\ UNCHANGED <<fs0, call, io_log, call2, io_log2, posVars, wmVars, rsVars, nmVars,
                   imp, cli, dlg>>

\* What the import dialog hands to the callback: a folder of images, a
\* folder whose only image is a .bmp, one whose images the window does not
\* list, a single file, a path that does not exist.
GuiImports ==
    { << <<"/", "s">> >>, << <<"/", "s", ".x">> >>, << <<"/", "t">> >>,
      << <<"/", "s", "/", "a", ".jpg">> >>, << <<"/", "missing">> >> }

\* The path typed into the save dialog.
GUI_SAVE_PATH == Append(Append(DIR_T, <<"d", ".jpg">>), <<"out", ".png">>)

GuiImport ==
    \E file_paths \in GuiImports :
        LET g == handle_imported_files(fs, gui, DIR_S, file_paths)
        IN  /\ Len(g.image_paths) <= MaxImages
            /\ GuiTakes(fs, g)

GuiSelect == \E index \in -1..MaxImages : GuiTakes(fs, _select_image(fs, gui, index))

GuiNext == GuiTakes(fs, _next_image(fs, gui))

GuiPrev == GuiTakes(fs, _prev_image(fs, gui))

GuiApply == GuiTakes(fs, _apply_watermark(fs, gui))

GuiSave ==
    \E file_path \in {<<>>, GUI_SAVE_PATH} :
        LET r == _save_image(fs, gui, file_path) IN GuiTakes(r.fs, r.gui)

\* _on_watermark_change: the text of the entry.
GuiEditText == \E text \in {<<>>, <<"w">>} : GuiTakes(fs, [gui EXCEPT !.entry = text])

\* _choose_color: the colour picked, as the hexadecimal code.
GuiChooseColor == GuiTakes(fs, [gui EXCEPT !.watermark_color = "#ff0000"])

\* _on_opacity_change: the scale runs from 0.1 to 1.0.
GuiOpacityChange ==
    \E value \in {50, 100} : GuiTakes(fs, [gui EXCEPT !.watermark_opacity = value])

\* _on_margin_change: the scale runs from 0 to 100.
GuiMarginChange ==
    \E value \in {0, 20} : GuiTakes(fs, [gui EXCEPT !.watermark_margin = value])

GuiIdle == gui = [pc |-> "idle"]

\* __init__ (lines 608-620)
GuiInit ==
    /\ FsAlone(ImportWorld)
    /\ gui = [image_paths |-> <<>>, current_image_index |-> -1,
              current_image |-> NoPicture, entry |-> <<"w">>,
              watermark_color |-> "white", watermark_opacity |-> 50,
              watermark_font |-> <<"Arial", 36>>, watermark_position |-> "center",
              watermark_margin |-> 20, message |-> "", applied |-> "no",
              saved |-> NoPicture]

(***************************************************************************)
(* The import dialog: ImportDialog (watermark_gui.py)                      *)
(*                                                                         *)
(* Everything runs on the Tk event loop.  A file chooser and a message box *)
(* are modal: they take the input grab and run the event loop themselves   *)
(* until they are closed, so no click reaches the dialog meanwhile, but a  *)
(* timer set with after() still fires.  dlg.stack holds the handlers that  *)
(* wait inside such a window, the innermost last.  The callback is         *)
(* handle_imported_files, which ends in a message box (lines 1015, 1018).  *)
(***************************************************************************)

\* Most after() calls pending at a time, most files shown as dropped.
MaxTimers == 3
MaxDropped == 3

\* self.callback(file_paths): counted, and its message box opens.
invoke_callback(d) ==
    [d EXCEPT !.callbacks = @ + 1, !.stack = Append(@, "msgbox")]

\* destroy(): the window and the Tcl commands of its after() calls are gone;
\* a timer that is still pending finds no command to run.
destroy(d) == [d EXCEPT !.alive = FALSE]

\* _display_dropped_files: the paths are added to dropped_files and the
\* confirm button is made.
_display_dropped_files(d) ==
    [d EXCEPT !.dropped = Min(MaxDropped, @ + 1), !.has_confirm = TRUE]

DlgTakes(d) ==
    /\ dlg' = d
    /\ UNCHANGED <<exVars, posVars, wmVars, rsVars, nmVars, imp, cli, gui>>

\* The dialog takes clicks: it exists and no modal window is open above it.
Responsive == dlg.alive /\ dlg.stack = <<>>

\* _on_drop and _handle_dropped_files (tkinterdnd2 at work): paths that
\* exist are shown, otherwise only the hint changes.
Drop ==
    /\ Responsive
    /\ dlg.mode = "dnd"
    /\ \E valid \in BOOLEAN :
          DlgTakes(IF valid THEN _display_dropped_files(dlg) ELSE dlg)

\* _check_clipboard_for_files, bound to <ButtonRelease-1> when tkinterdnd2
\* is not at work: paths on the clipboard are shown and
\* after(500, self._process_dropped_files, file_paths) is set.
CheckClipboard ==
    /\ Responsive
    /\ dlg.mode = "fallback"
    /\ dlg.timers < MaxTimers
    /\ \E has_files \in BOOLEAN :
          DlgTakes(IF has_files
                   THEN [_display_dropped_files(dlg) EXCEPT !.timers = @ + 1]
                   ELSE dlg)

\* The delayed call comes due: _process_dropped_files, unless the dialog
\* was destroyed meanwhile.
TimerFires ==
    /\ dlg.timers > 0
    /\ DlgTakes(IF dlg.alive
                THEN invoke_callback([dlg EXCEPT !.timers = @ - 1])
                ELSE [dlg EXCEPT !.timers = @ - 1])

\* The confirm button: _process_dropped_files(self.dropped_files).
Confirm ==
    /\ Responsive
    /\ dlg.has_confirm
    /\ DlgTakes(invoke_callback(dlg))

\* _select_files up to filedialog.askopenfilenames
SelectFiles ==
    /\ Responsive
    /\ DlgTakes([dlg EXCEPT !.stack = Append(@, "askopenfilenames")])

\* _select_folder up to filedialog.askdirectory
SelectFolder ==
    /\ Responsive
    /\ DlgTakes([dlg EXCEPT !.stack = Append(@, "askdirectory")])

\* The file chooser closes: with a choice the callback is called, without
\* one the handler returns.
ChooserCloses ==
    /\ dlg.stack # <<>>
    /\ dlg.stack[Len(dlg.stack)] \in {"askopenfilenames", "askdirectory"}
    /\ LET back == [dlg EXCEPT !.stack = SubSeq(@, 1, Len(@) - 1)]
       IN  \E chosen \in BOOLEAN :
              DlgTakes(IF chosen THEN invoke_callback(back) ELSE back)

\* The message box of the callback is closed: the callback returns and the
\* handler that called it goes on to self.destroy().
MessageCloses ==
    /\ dlg.stack # <<>>
    /\ dlg.stack[Len(dlg.stack)] = "msgbox"
    /\ DlgTakes(destroy([dlg EXCEPT !.stack = SubSeq(@, 1, Len(@) - 1)]))

\* The cancel button: command=self.destroy
Cancel ==
    /\ Responsive
    /\ DlgTakes(destroy(dlg))

DlgIdle == dlg = [pc |-> "idle"]

\* __init__: drag and drop through tkinterdnd2, or the clipboard fallback
\* when registering the drop target fails (lines 220-241).
DlgInit ==
    dlg \in [mode : {"dnd", "fallback"}, alive : {TRUE}, dropped : {0},
             has_confirm : {FALSE}, timers : {0}, stack : {<<>>}, callbacks : {0}]

ShIdle == CliIdle /\ GuiIdle /\ DlgIdle

(***************************************************************************)
(* Specifications                                                          *)
(***************************************************************************)

InitPosition == PosInit /\ WmIdle /\ ExIdle /\ RsIdle /\ NmIdle /\ ImpIdle /\ ShIdle
NextPosition == ComputePosition
SpecPosition == InitPosition /\ [][NextPosition]_vars

InitWatermark == PosIdle /\ WmInit /\ ExIdle /\ RsIdle /\ NmIdle /\ ImpIdle /\ ShIdle
NextWatermark == ApplyTextWatermark
SpecWatermark == InitWatermark /\ [][NextWatermark]_vars

InitResize == PosIdle /\ WmIdle /\ ExIdle /\ RsInit /\ NmIdle /\ ImpIdle /\ ShIdle
NextResize == ComputeNewSize
SpecResize == InitResize /\ [][NextResize]_vars

InitNaming == PosIdle /\ WmIdle /\ ExIdle /\ RsIdle /\ NmInit /\ ImpIdle /\ ShIdle
NextNaming == BuildOutputName
SpecNaming == InitNaming /\ [][NextNaming]_vars

InitImport == PosIdle /\ WmIdle /\ ImpInit /\ RsIdle /\ NmIdle /\ ShIdle
NextImport == DiscoverInputs
SpecImport == InitImport /\ [][NextImport]_vars

InitConcurrent == PosIdle /\ WmIdle /\ ConcInit /\ RsIdle /\ NmIdle /\ ImpIdle /\ ShIdle
NextConcurrent == ExportStep1 \/ ExportStep2
SpecConcurrent == InitConcurrent /\ [][NextConcurrent]_vars

InitCli == PosIdle /\ WmIdle /\ RsIdle /\ NmIdle /\ ImpIdle /\ CliInit /\ GuiIdle /\ DlgIdle
NextCli == ListDirectory \/ DateOfImage \/ AddWatermark
SpecCli == InitCli /\ [][NextCli]_vars

InitGui == PosIdle /\ WmIdle /\ RsIdle /\ NmIdle /\ ImpIdle /\ CliIdle /\ GuiInit /\ DlgIdle
NextGui ==
    \/ GuiImport
    \/ GuiSelect
    \/ GuiNext
    \/ GuiPrev
    \/ GuiApply
    \/ GuiSave
    \/ GuiEditText
    \/ GuiChooseColor
    \/ GuiOpacityChange
    \/ GuiMarginChange
SpecGui == InitGui /\ [][NextGui]_vars

InitDialog == PosIdle /\ WmIdle /\ ExIdle /\ RsIdle /\ NmIdle /\ ImpIdle /\ CliIdle /\ GuiIdle /\ DlgInit
NextDialog ==
    \/ Drop
    \/ CheckClipboard
    \/ TimerFires
    \/ Confirm
    \/ SelectFiles
    \/ SelectFolder
    \/ ChooserCloses
    \/ MessageCloses
    \/ Cancel
SpecDialog == InitDialog /\ [][NextDialog]_vars

Init == PosIdle /\ WmIdle /\ ExInit /\ RsIdle /\ NmIdle /\ ImpIdle /\ ShIdle
Next ==
    \/ ReturnEmpty
    \/ MkdirOutputDir
    \/ CheckSourceDirs
    \/ OpenSource
    \/ PrepareAndMkdir
    \/ SaveImage
Spec == Init /\ [][Next]_vars

(***************************************************************************)
(* Claims about the position calculator (SpecPosition)                     *)
(***************************************************************************)

BoxFits == pos_args.box_w <= pos_args.img_w /\ pos_args.box_h <= pos_args.img_h

\* C1: for each of the 9 positions, every margin >= 0 and every box that fits
\* in the image, the returned (x, y) has 0 <= x <= img_w - box_w and
\* 0 <= y <= img_h - box_h; it is (0, 0) when the box has the image's size.
C1_PositionWithinBounds ==
    (pos_ret.done /\ BoxFits) =>
        /\ 0 <= pos_ret.xy[1] /\ pos_ret.xy[1] <= pos_args.img_w - pos_args.box_w
        /\ 0 <= pos_ret.xy[2] /\ pos_ret.xy[2] <= pos_args.img_h - pos_args.box_h
        /\ (pos_args.box_w = pos_args.img_w /\ pos_args.box_h = pos_args.img_h)
              => pos_ret.xy = <<0, 0>>

\* A fitting box at the right edge whose margin exceeds the free width.
C1_Witness ==
    /\ pos_ret.done /\ BoxFits
    /\ pos_args.position = "top_right"
    /\ pos_args.box_w < pos_args.img_w
    /\ pos_args.margin > pos_args.img_w - pos_args.box_w
    /\ pos_ret.xy[1] = 0

\* The spec's per-axis rule: the column and row of a position, the anchor of
\* an edge, and the clamp into [0, dimension - box] (0 when that is inverted).
Column(position) ==
    IF position \in {"top_left", "center_left", "bottom_left"} THEN "near"
    ELSE IF position \in {"top_right", "center_right", "bottom_right"} THEN "far"
    ELSE "center"

Row(position) ==
    IF position \in {"top_left", "top_center", "top_right"} THEN "near"
    ELSE IF position \in {"bottom_left", "bottom_center", "bottom_right"} THEN "far"
    ELSE "center"

RefAxis(edge, dimension, box, margin) ==
    LET anchor == CASE edge = "near" -> margin
                    [] edge = "far" -> dimension - box - margin
                    [] OTHER -> (dimension - box) \div 2
    IN  IF box > dimension THEN 0
        ELSE IF anchor < 0 THEN 0
        ELSE IF anchor > dimension - box THEN dimension - box
        ELSE anchor

\* C2: compute_position equals the per-axis reference for all 9 positions and
\* all non-negative inputs: anchor margin, dimension - box - margin or
\* floor((dimension - box) / 2), clamped into [0, dimension - box], and 0 on an
\* axis where the box is larger than the image.
C2_MatchesReference ==
    pos_ret.done =>
        pos_ret.xy = << RefAxis(Column(pos_args.position), pos_args.img_w,
                                pos_args.box_w, pos_args.margin),
                        RefAxis(Row(pos_args.position), pos_args.img_h,
                                pos_args.box_h, pos_args.margin) >>

\* A box wider than the image, and a margin that is honoured on the y axis.
C2_Witness ==
    /\ pos_ret.done
    /\ pos_args.position = "bottom_right"
    /\ pos_args.box_w > pos_args.img_w
    /\ pos_args.margin = 1
    /\ pos_args.img_h - pos_args.box_h = 3
    /\ pos_ret.xy = <<0, 2>>

\* C22: compute_position for CENTER returns the same (x, y) for every margin
\* value, for all image and box sizes.
C22_CenterIgnoresMargin ==
    (pos_ret.done /\ pos_args.position = "center") =>
        \A m \in 0..MaxMargin :
            pos_ret.xy = compute_position(pos_args.img_w, pos_args.img_h,
                                          pos_args.box_w, pos_args.box_h,
                                          "center", m)

\* A centered box with free space on both axes and the largest margin.
C22_Witness ==
    /\ pos_ret.done /\ pos_args.position = "center"
    /\ pos_args.margin = MaxMargin
    /\ pos_args.img_w - pos_args.box_w = 3
    /\ pos_args.img_h - pos_args.box_h = 2
    /\ pos_ret.xy = <<1, 1>>

\* The position in the same row and the opposite column, and the one in the
\* same column and the opposite row.
MirrorColumn(position) ==
    CASE position = "top_left" -> "top_right"
      [] position = "top_right" -> "top_left"
      [] position = "center_left" -> "center_right"
      [] position = "center_right" -> "center_left"
      [] position = "bottom_left" -> "bottom_right"
      [] position = "bottom_right" -> "bottom_left"
      [] OTHER -> position

MirrorRow(position) ==
    CASE position = "top_left" -> "bottom_left"
      [] position = "top_center" -> "bottom_center"
      [] position = "top_right" -> "bottom_right"
      [] position = "bottom_left" -> "top_left"
      [] position = "bottom_center" -> "top_center"
      [] position = "bottom_right" -> "top_right"
      [] OTHER -> position

PosAt(position) ==
    compute_position(pos_args.img_w, pos_args.img_h, pos_args.box_w, pos_args.box_h,
                     position, pos_args.margin)

\* C30: for every margin >= 0 and every box that fits in the image, the x of
\* a left-column position plus the x of the right-column position in the same
\* row is img_w - box_w, and the y of a top-row position plus the y of the
\* bottom-row position in the same column is img_h - box_h, also when the
\* margin exceeds the free space and clamping applies.
C30_MirrorSymmetry ==
    (pos_ret.done /\ BoxFits) =>
        /\ Column(pos_args.position) # "center" =>
              pos_ret.xy[1] + PosAt(MirrorColumn(pos_args.position))[1]
                  = pos_args.img_w - pos_args.box_w
        /\ Row(pos_args.position) # "center" =>
              pos_ret.xy[2] + PosAt(MirrorRow(pos_args.position))[2]
                  = pos_args.img_h - pos_args.box_h

\* A corner whose margin exceeds the free space on both axes: the left and
\* top placements are clamped to the free space, their mirrors to 0.
C30_Witness ==
    /\ pos_ret.done /\ BoxFits
    /\ pos_args.position = "top_left"
    /\ pos_args.img_w - pos_args.box_w = 2
    /\ pos_args.img_h - pos_args.box_h = 1
    /\ pos_args.margin = 4
    /\ pos_ret.xy = <<2, 1>>
    /\ PosAt("top_right")[1] = 0
    /\ PosAt("bottom_left")[2] = 0

(***************************************************************************)
(* Claims about the text renderer (SpecWatermark)                          *)
(***************************************************************************)

WmDone == wm_ret.kind # "pending"

\* C3: with non-empty text and opacity > 0, apply_text_watermark returns a new
\* image without raising, for every position and every TextWatermarkOptions
\* built from the declared fields, also when no named font can be loaded.
C3_DeclaredOptionsRender ==
    ( /\ WmDone
      /\ wm_args.options.text # <<>>
      /\ wm_args.options.opacity > 0
      /\ DOMAIN wm_args.options = DeclaredFields )
    => (wm_ret.kind = "returned" /\ wm_ret.img # 1)

\* C4: with opacity <= 0 or empty text, apply_text_watermark returns, without
\* raising, a copy that is pixel-identical to the input, whatever the other
\* option values are.
C4_NoOpReturnsIdenticalCopy ==
    (WmDone /\ (wm_args.options.opacity <= 0 \/ Len(wm_args.options.text) = 0))
    => /\ wm_ret.kind = "returned"
       /\ wm_ret.img # 1
       /\ wm_heap[wm_ret.img] = wm_args.image

\* A negative opacity with a text to draw and no font_name attribute.
C4_Witness ==
    /\ wm_ret.kind = "returned"
    /\ wm_args.options.opacity < 0
    /\ wm_args.options.text # <<>>
    /\ ~HasAttr(wm_args.options, "font_name")
    /\ wm_heap[wm_ret.img] = wm_args.image

\* round(n / d), ties to the even neighbour.
RoundDiv(n, d) ==
    LET q == n \div d
        r == n % d
    IN  IF 2 * r < d THEN q
        ELSE IF 2 * r > d THEN q + 1
        ELSE IF q % 2 = 0 THEN q ELSE q + 1

Clamped0To100(v) == IF v < 0 THEN 0 ELSE IF v > 100 THEN 100 ELSE v

\* The call drew the text: it went past the early return and past the font.
WmDrew == wm_ret.kind = "returned" /\ wm_ret.alpha >= 0

\* C5 as stated: the alpha used to draw the text is
\* round(255 * clamp(opacity, 0, 100) / 100) for every integer opacity > 0.
C5_AlphaIsRounded ==
    WmDrew => wm_ret.alpha = RoundDiv(255 * Clamped0To100(wm_args.options.opacity), 100)

\* C5 as amended: the alpha used to draw the text is
\* floor(255 * clamp(opacity, 0, 100) / 100), the product truncated, for every
\* integer opacity > 0, 255 for every opacity above 100.
C5_AlphaIsTruncated ==
    WmDrew =>
        /\ wm_args.options.opacity > 0
        /\ wm_ret.alpha * 100 <= 255 * Clamped0To100(wm_args.options.opacity)
        /\ 255 * Clamped0To100(wm_args.options.opacity) < (wm_ret.alpha + 1) * 100
        /\ wm_args.options.opacity > 100 => wm_ret.alpha = 255
        /\ LET drawn == wm_heap[Len(wm_heap) - 2].px.ops
           IN  drawn[Len(drawn)].fill[4] = wm_ret.alpha

\* Opacity 50, whose exact product 127.5 is a half-integer, drawn with 127.
C5_Witness == WmDrew /\ wm_args.options.opacity = 50 /\ wm_ret.alpha = 127

\* C6: apply_text_watermark never mutates its input image: after the call,
\* on the no-op path and on the rendering path (also when it raised), the
\* input's pixels, size and mode are unchanged, and a returned image is a
\* distinct object with the input's size and color mode.
C6_InputNeverMutated ==
    WmDone =>
        /\ wm_heap[1] = wm_args.image
        /\ wm_ret.kind = "returned" =>
              /\ wm_ret.img # 1
              /\ wm_heap[wm_ret.img].mode = wm_args.image.mode
              /\ wm_heap[wm_ret.img].w = wm_args.image.w
              /\ wm_heap[wm_ret.img].h = wm_args.image.h

\* A rendered watermark on a grayscale input: drawn in RGBA, returned in L.
C6_Witness ==
    /\ WmDrew
    /\ wm_args.image.mode = "L"
    /\ wm_heap[wm_ret.img].mode = "L"
    /\ wm_heap[wm_ret.img].px # wm_args.image.px

(***************************************************************************)
(* Claims about the exporter (Spec)                                        *)
(***************************************************************************)

ExFiles == call.files
ExOut == call.options.output_dir

\* No component of the path is a regular file (it names a directory, or a
\* place where one can be made).
NoFileOnPath(fsys, path) ==
    \A k \in 1..Len(path) : ~IsFile(fsys, SubSeq(path, 1, k))

\* output_dir resolves to the parent directory of files[k], as of the call.
OffendingFile(k) ==
    /\ resolve(fs0, Parent(ExFiles[k])) = resolve(fs0, ExOut)
    /\ NoFileOnPath(fs0, resolve(fs0, ExOut))

SourceProcessed == \E k \in DOMAIN io_log : io_log[k].idx > 0

\* C7: with allow_overwrite_source=False and output_dir resolving to the
\* parent directory of at least one source file, export_images raises the
\* configuration error before any source image is opened and before any
\* destination is written, wherever in the list the offending file is.
C7_ConfigErrorBeforeProcessing ==
    ( /\ ~call.options.allow_overwrite_source
      /\ \E k \in DOMAIN ExFiles : OffendingFile(k) )
    => /\ ~SourceProcessed
       /\ call.pc \in {"called", "check", "raised"}
       /\ call.pc = "raised" => call.exc = "ValueError"

\* The configuration error raised for a list whose last file only offends,
\* through a symlinked output_dir.
C7_Witness ==
    /\ call.pc = "raised" /\ call.exc = "ValueError"
    /\ Len(ExFiles) = 3
    /\ ~OffendingFile(1) /\ ~OffendingFile(2) /\ OffendingFile(3)
    /\ ExOut = DIR_L

\* C8: with allow_overwrite_source=False, an export_images call never writes
\* a destination whose resolved path is the resolved path of one of its
\* source files, for every naming_mode and every prefix and suffix string.
C8_NeverWritesASource ==
    ~call.options.allow_overwrite_source =>
        \A e \in DOMAIN io_log :
            (io_log[e].op = "write" /\ io_log[e].ok) =>
                \A k \in DOMAIN ExFiles : io_log[e].path # resolve(fs0, ExFiles[k])

\* C9: whenever export_images raises the configuration error, the filesystem
\* is exactly as it was before the call: no directory created (output_dir and
\* its missing ancestors included), no file written.
C9_ConfigErrorLeavesFilesystem ==
    (call.pc = "raised" /\ call.exc = "ValueError") => fs = fs0

\* C10: when processing of files[i] fails (unreadable source, unwritable
\* destination), the exception propagates out of export_images, the
\* destinations of files[0..i-1] have been written and are on disk, and no
\* file after files[i] is opened or written.
C10_FailureAbortsBatch ==
    \A k \in DOMAIN io_log :
        (io_log[k].idx > 0 /\ ~io_log[k].ok) =>
            /\ k = Len(io_log)
            /\ call.pc = "raised"
            /\ call.i = io_log[k].idx
            /\ Len(call.exported) = call.i - 1
            /\ \A j \in 1..(call.i - 1) :
                  /\ IsFile(fs, lookup(fs, call.exported[j]).path)
                  /\ \E e \in DOMAIN io_log :
                        /\ io_log[e].op = "write" /\ io_log[e].ok
                        /\ io_log[e].idx = j
                        /\ io_log[e].path = lookup(fs, call.exported[j]).path
            /\ \A e \in DOMAIN io_log : io_log[e].idx <= call.i

\* The second of three files cannot be opened: the first one's destination is
\* a new file on disk, the third was never touched.
C10_Witness ==
    /\ call.pc = "raised" /\ call.exc = "OSError"
    /\ Len(ExFiles) = 3 /\ call.i = 2
    /\ io_log[Len(io_log)].op = "open"
    /\ Len(call.exported) = 1
    /\ IsFile(fs, lookup(fs, call.exported[1]).path)
    /\ ~IsFile(fs0, lookup(fs, call.exported[1]).path)

\* C11: a successful export_images call returns one destination per input
\* file, in input order: the list has len(files) elements and its i-th element
\* is build_output_name of files[i] with the options' output_dir, naming mode,
\* prefix, suffix and format.
C11_OneDestinationPerInput ==
    call.pc = "returned" =>
        /\ Len(call.exported) = Len(ExFiles)
        /\ \A k \in DOMAIN ExFiles :
              call.exported[k] =
                  build_output_name(ExFiles[k], ExOut, call.options.naming_mode,
                                    call.options.prefix, call.options.suffix,
                                    call.options.output_format)

\* Three files, the first and last with different destinations, all written.
C11_Witness ==
    /\ call.pc = "returned"
    /\ Len(ExFiles) = 3
    /\ call.options.naming_mode = "prefix"
    /\ call.exported[1] # call.exported[3]
    /\ call.exported[1] # call.exported[2]
    /\ \A k \in 1..3 : IsFile(fs, lookup(fs, call.exported[k]).path)

\* C12: export_images with an empty input list returns an empty list and
\* changes nothing: output_dir is not created and the source-directory check
\* is not run, whatever the options are.
C12_EmptyInputShortCircuits ==
    ExFiles = <<>> =>
        /\ call.pc \in {"called", "returned"}
        /\ call.exported = <<>>
        /\ fs = fs0
        /\ io_log = <<>>

\* The empty list with an output_dir that does not exist, and still does not.
C12_Witness ==
    /\ call.pc = "returned"
    /\ ExFiles = <<>>
    /\ ExOut = DIR_N
    /\ ~call.options.allow_overwrite_source
    /\ ~IsDir(fs, DIR_N)

(***************************************************************************)
(* Claims about _compute_new_size (SpecResize)                             *)
(***************************************************************************)

RsValue == rs_args.options.resize_value[1]

RsResized(mode) ==
    /\ rs_ret.done
    /\ rs_args.options.resize_mode = mode
    /\ rs_args.options.resize_value # <<>>

AtLeast1(n) == IF n < 1 THEN 1 ELSE n

\* C13: by_width gives new_w = value and new_h = round(h * value / w) when
\* keep_aspect_ratio is set (else h), both raised to at least 1, for every
\* image size and every integer value; by_height is the same rule with the
\* axes swapped.
C13_ResizeByOneSideRounds ==
    /\ RsResized("by_width") =>
          rs_ret.size = << AtLeast1(RsValue),
                           AtLeast1(IF rs_args.options.keep_aspect_ratio
                                    THEN RoundDiv(rs_args.img.h * RsValue, rs_args.img.w)
                                    ELSE rs_args.img.h) >>
    /\ RsResized("by_height") =>
          rs_ret.size = << AtLeast1(IF rs_args.options.keep_aspect_ratio
                                    THEN RoundDiv(rs_args.img.w * RsValue, rs_args.img.h)
                                    ELSE rs_args.img.w),
                           AtLeast1(RsValue) >>

\* n is side * max(0.01, value / 100) made an integer (the fraction dropped;
\* a float product just short of an integer counts as the integer below) and
\* raised to at least 1.
ScaledByPercent(side, value, n) ==
    LET s == IF value < 1 THEN 1 ELSE value
    IN  \E k \in {0, n} :
            /\ n = AtLeast1(k)
            /\ k * 100 <= side * s
            /\ side * s <= (k + 1) * 100
            /\ side * s = (k + 1) * 100 => <<side, s, 100>> \in FloatShortfall

NmStem ==
    (IF nm_args.mode = "prefix" THEN nm_args.prefix ELSE <<>>)
        \o Stem(nm_args.src_file)
        \o (IF nm_args.mode = "suffix" THEN nm_args.suffix ELSE <<>>)

NmExt == IF nm_args.out_ext = "jpeg" THEN ".jpg" ELSE ".png"

\* C15: build_output_name returns out_dir / (stem' + ext): stem' is the source
\* stem for keep, prefix + stem for prefix, stem + suffix for suffix, and ext
\* is .jpg for "jpeg" and .png for "png", whatever the source file's extension
\* and directory are.  For a stem' without separators that is the file named
\* stem' + ext directly in out_dir.
C15_OutputName ==
    (nm_ret.done /\ nm_args.out_ext \in {"jpeg", "png"}) =>
        /\ nm_ret.path = JoinPath(nm_args.out_dir, NmStem \o <<NmExt>>)
        /\ (\A k \in DOMAIN NmStem : NmStem[k] # "/") =>
              /\ Parent(nm_ret.path) = nm_args.out_dir
              /\ nm_ret.path[Len(nm_ret.path)] = NmStem \o <<NmExt>>

\* a/b/img.tif with suffix "_wm" as png: <out_dir>/img_wm.png.
C15_Witness ==
    /\ nm_ret.done
    /\ nm_args.src_file = << <<"a">>, <<"b">>, <<"img", ".tif">> >>
    /\ nm_args.mode = "suffix" /\ nm_args.suffix = <<"_wm">>
    /\ nm_args.prefix = <<"wm_">>
    /\ nm_args.out_ext = "png"
    /\ nm_args.out_dir = DIR_O
    /\ nm_ret.path = Append(DIR_O, <<"img", "_wm", ".png">>)

(***************************************************************************)
(* Claims about discover_inputs (SpecImport)                               *)
(***************************************************************************)

ImpDone == imp.pc = "returned"

ImpFiles == {imp.files[k] : k \in DOMAIN imp.files}

\* The input paths made absolute and canonical.
ImpInputs == {resolve(fs, JoinPath(imp.cwd, imp.paths[k])) : k \in DOMAIN imp.paths}

\* C16: no two entries of the returned files denote the same canonical file,
\* also when a file is given directly and through a folder, when folders
\* overlap, and when a scanned folder holds a symlink to another scanned file.
C16_NoTwoEntriesSameFile ==
    ImpDone =>
        \A i, j \in DOMAIN imp.files :
            i # j => resolve(fs, imp.files[i]) # resolve(fs, imp.files[j])

\* p is before q in path-component order: at the first component where they
\* differ p's is the smaller string, or p is a proper prefix of q.
ComponentLess(p, q) ==
    \E k \in 1..Len(q) :
        /\ k <= Len(p) + 1
        /\ SubSeq(p, 1, k - 1) = SubSeq(q, 1, k - 1)
        /\ \/ k = Len(p) + 1
           \/ NameRank(p[k]) < NameRank(q[k])

\* C17: the returned files are in strictly increasing path order
\* (lexicographic on the component sequence), for every input sequence.
C17_FilesSorted ==
    ImpDone =>
        \A k \in 1..(Len(imp.files) - 1) :
            ComponentLess(imp.files[k], imp.files[k + 1])

\* Folders given in descending order; /s/sub/c.tif comes before /s.x/e.bmp,
\* which the order of the path strings would put first.
C17_Witness ==
    /\ ImpDone
    /\ imp.paths = << <<"/", "s", ".x">>, <<"/", "s">> >>
    /\ Len(imp.files) = 5
    /\ imp.files[4] = FILE_C
    /\ imp.files[5] = FILE_E

\* The lower-cased extension is one of the six supported ones.
HasImageExtension(path) ==
    \E ext \in {".jpg", ".jpeg", ".png", ".bmp", ".tif", ".tiff"} :
        Lower(Suffix(path)) = ext

\* The entries of the filesystem below dir, at any depth.
EntriesUnder(dir) ==
    { q \in fs.dirs \cup DOMAIN fs.files \cup DOMAIN fs.links :
        Len(q) > Len(dir) /\ SubSeq(q, 1, Len(dir)) = dir }

ExistsAt(path) ==
    LET at == lookup(fs, path)
    IN  at.err = "" /\ (IsDir(fs, at.path) \/ IsFile(fs, at.path))

\* C18: the set of returned files is exactly the set of existing regular files
\* (a link to a file is one) with a supported extension, compared in lower
\* case, that are an input path or lie at any depth under an input directory;
\* input paths that do not exist contribute nothing, and the result is that
\* of the call without them.
C18_FilesAreTheImagesFound ==
    ImpDone =>
        /\ ImpFiles =
              { f \in UNION {{p} \cup EntriesUnder(p) : p \in ImpInputs} :
                  /\ ExistsAt(f) /\ ~is_dir(fs, f)
                  /\ HasImageExtension(f) }
        /\ imp.files =
              discover_inputs(fs, imp.cwd,
                  SelectSeq(imp.paths,
                            LAMBDA raw : ExistsAt(resolve(fs, JoinPath(imp.cwd, raw))))).files

\* A folder and a path that does not exist: the upper-case B.PNG and the
\* nested sub/c.tif are found, notes.txt and the broken link are not.
C18_Witness ==
    /\ ImpDone
    /\ imp.paths = << <<"/", "missing">>, <<"/", "s">> >>
    /\ ImpFiles = {FILE_SA, FILE_B, FILE_C, LINK_K}

IsPrefix(p, q) == Len(p) <= Len(q) /\ SubSeq(q, 1, Len(p)) = p

\* The recorded roots: every existing input directory, and the parent of
\* every existing input file.
ImpRoots ==
    {p \in ImpInputs : is_dir(fs, p)}
        \cup {Parent(p) : p \in {q \in ImpInputs : is_file(fs, q)}}

\* C19: common_root is the longest common ancestor directory of the recorded
\* roots (every existing input directory and the parent of every existing
\* input regular file, also one whose extension is unsupported), and the
\* current working directory when no root was recorded.
C19_CommonRoot ==
    ImpDone =>
        IF ImpRoots = {} THEN imp.common_root = imp.cwd
        ELSE /\ \A r \in ImpRoots : IsPrefix(imp.common_root, r)
             /\ \A r \in ImpRoots : \A n \in 0..Len(r) :
                   (\A r2 \in ImpRoots : IsPrefix(SubSeq(r, 1, n), r2))
                       => n <= Len(imp.common_root)

\* A text file and a nested folder: the roots are /s and /s/sub, no image
\* comes from the text file, and the common root is /s, not the directory
\* the call was made in.
C19_Witness ==
    /\ ImpDone
    /\ imp.paths = << <<"/", "s", "/", "notes", ".txt">>, <<"/", "s", "/", "sub">> >>
    /\ imp.cwd = DIR_T
    /\ imp.files = <<FILE_C>>
    /\ imp.common_root = DIR_S

\* The input list in every order, and with one of its paths given once more
\* at the front or at the end.
ImpReorderings ==
    LET n == Len(imp.paths)
    IN  { [k \in 1..n |-> imp.paths[f[k]]] : f \in Permutations(1..n) }
            \cup { <<imp.paths[k]>> \o imp.paths : k \in 1..n }
            \cup { Append(imp.paths, imp.paths[k]) : k \in 1..n }

\* C29: discover_inputs does not depend on the order or multiplicity of its
\* input paths: every permutation of the inputs, and every repetition of an
\* input, yields the same files list and the same common_root.
C29_OrderAndMultiplicity ==
    ImpDone =>
        \A other \in ImpReorderings :
            LET r == discover_inputs(fs, imp.cwd, other)
            IN  r.files = imp.files /\ r.common_root = imp.common_root

\* Three inputs in descending order, the last a file inside the first: the
\* result is sorted and the root is the one of the folders in any order.
C29_Witness ==
    /\ ImpDone
    /\ imp.paths = << <<"/", "t">>, <<"/", "s", "/", "sub">>, <<"/", "s", "/", "a", ".jpg">> >>
    /\ imp.files = <<FILE_SA, FILE_C, FILE_TA>>
    /\ imp.common_root = <<>>

(***************************************************************************)
(* Claims about the encoding of exported images (Spec)                     *)
(***************************************************************************)

\* C20: when output_format is jpeg, every image handed to save has a
\* non-alpha color mode (RGB or L) and a quality equal to jpeg_quality clamped
\* into [0, 100], for every integer jpeg_quality; when it is png, no quality
\* is applied.  A written destination holds the image so encoded.
C20_JpegModeAndQuality ==
    /\ call.pc = "save" =>
          /\ call.options.output_format = "jpeg" =>
                /\ call.img.format = "JPEG"
                /\ call.img.mode \in {"RGB", "L"}
                /\ call.img.quality = Clamped0To100(call.options.jpeg_quality)
          /\ call.options.output_format = "png" =>
                /\ call.img.format = "PNG"
                /\ call.img.quality = -1
    /\ \A e \in DOMAIN io_log :
          (io_log[e].op = "write" /\ io_log[e].ok /\ IsFile(fs, io_log[e].path)
           /\ call.options.output_format = "jpeg")
          => fs.files[io_log[e].path].mode \in {"RGB", "L"}

\* The RGBA source saved as jpeg with a quality above 100.
C20_Witness ==
    /\ call.pc = "save"
    /\ call.options.output_format = "jpeg"
    /\ call.options.jpeg_quality > 100
    /\ ExFiles[call.i] = FILE_SB
    /\ call.img.mode = "RGB"
    /\ call.img.quality = 100

\* The extension of a path: the last part of its last component.
LastFragment(path) == path[Len(path)][Len(path[Len(path)])]

\* C28: for every output_format string (any letter case, and strings other
\* than "jpeg" and "png") the extension build_output_name chose agrees with
\* the encoding export_images chose: the destination ends in .jpg exactly
\* when the image is saved as JPEG and in .png exactly when it is saved as
\* PNG, and so does every destination written.
C28_ExtensionMatchesEncoding ==
    /\ call.pc = "save" =>
          /\ LastFragment(call.dest) = ".jpg" <=> call.img.format = "JPEG"
          /\ LastFragment(call.dest) = ".png" <=> call.img.format = "PNG"
          /\ call.img.format \in {"JPEG", "PNG"}
    /\ \A e \in DOMAIN io_log :
          (io_log[e].op = "write" /\ io_log[e].ok /\ IsFile(fs, io_log[e].path)) =>
              /\ LastFragment(io_log[e].path) = ".jpg"
                    <=> fs.files[io_log[e].path].format = "JPEG"
              /\ LastFragment(io_log[e].path) = ".png"
                    <=> fs.files[io_log[e].path].format = "PNG"

\* "JPEG" in upper case: a .jpg name and a JPEG encoding.
C28_Witness ==
    /\ call.pc = "save"
    /\ call.options.output_format = "JPEG"
    /\ LastFragment(call.dest) = ".jpg"
    /\ call.img.format = "JPEG"

\* The physical path of the destination of files[k].
DestOf(k) == lookup(fs, call.exported[k]).path

\* No source file of the batch is at the path.
NotASource(path) == \A k \in DOMAIN ExFiles : resolve(fs0, ExFiles[k]) # path

BothFinished == Finished(call) /\ Finished(call2)

\* The call c as it would have run alone on the filesystem of the start.
Alone(c) == run_alone(fs0, NewCall(c.files, c.options), <<>>)

\* c ended as it does alone: the same outcome and returned list, and every
\* destination it writes alone is on disk with the same content.
SameAsAlone(c) ==
    LET a == Alone(c)
    IN  /\ c.pc = a.call.pc
        /\ c.exc = a.call.exc
        /\ c.exported = a.call.exported
        /\ \A e \in DOMAIN a.log :
              (a.log[e].op = "write" /\ a.log[e].ok) =>
                  /\ IsFile(fs, a.log[e].path)
                  /\ fs.files[a.log[e].path] = a.fs.files[a.log[e].path]

\* C21 as stated: two export_images calls that run concurrently with
\* different output_dir values and disjoint source sets do not interfere:
\* under every interleaving each returns the same list and leaves the same
\* destination files as when run alone.
C21_DifferentOutputDirsSuffice ==
    BothFinished => (SameAsAlone(call) /\ SameAsAlone(call2))

\* What a call touches when it runs alone: the sources it opens, the
\* destinations it writes and the directories it makes.
Sources(c) == {resolve(fs0, c.files[k]) : k \in DOMAIN c.files}

Written(c) ==
    LET a == Alone(c) IN {a.log[e].path : e \in {k \in DOMAIN a.log : a.log[k].op = "write"}}

MadeDirs(c) == Alone(c).fs.dirs \ fs0.dirs

\* No destination of c is a source, a destination or a directory of d.
WritesApart(c, d) == Written(c) \cap (Sources(d) \cup Written(d) \cup MadeDirs(d)) = {}

\* C21 as amended: two export_images calls that run concurrently with
\* disjoint source sets, and such that no destination path of one is a
\* source, a destination or a directory made by the other, do not interfere:
\* under every interleaving each ends as when run alone, with the same
\* returned list and the same destination files.
C21_SeparateFootprintsSuffice ==
    (BothFinished /\ WritesApart(call, call2) /\ WritesApart(call2, call)) =>
        (SameAsAlone(call) /\ SameAsAlone(call2))

\* Both calls make /n on their way (output_dir /n and /n/sub) and write
\* different files; both return what they return alone.
C21_Witness ==
    /\ BothFinished
    /\ call.pc = "returned" /\ call2.pc = "returned"
    /\ call.options.output_dir = DIR_N
    /\ call2.options.output_dir = Append(DIR_N, <<"sub">>)
    /\ Len(call.files) = 2
    /\ WritesApart(call, call2) /\ WritesApart(call2, call)
    /\ io_log2[1].op = "mkdir" /\ io_log[1].op = "mkdir"
    /\ SameAsAlone(call) /\ SameAsAlone(call2)

(***************************************************************************)
(* Claims about the command-line tool (SpecCli)                            *)
(***************************************************************************)

CliEnded == cli.pc \in {"returned", "raised"}

\* C25: in the loop of process_directory an exception raised while one image
\* is watermarked is printed as a message for that file and does not stop
\* the loop: every image found in the directory is attempted, with one
\* message each, and the call returns.
C25_EveryImageAttempted ==
    (CliEnded /\ cli.image_files # <<>>) =>
        /\ cli.pc = "returned"
        /\ cli.attempted = cli.image_files
        /\ Len(cli.printed) = Len(cli.image_files)
        /\ \A k \in DOMAIN cli.printed : cli.printed[k].file = cli.image_files[k]

(***************************************************************************)
(* Claims about the window (SpecGui)                                       *)
(***************************************************************************)

C26_SelectionInvariant ==
    /\ gui.current_image_index = -1 <=> gui.image_paths = <<>>
    /\ gui.image_paths # <<>> =>
          (0 <= gui.current_image_index /\ gui.current_image_index < Len(gui.image_paths))

\* Three imports filled the list and the last image is selected.
C26_Witness ==
    /\ Len(gui.image_paths) = 3
    /\ gui.image_paths[2] = FILE_E
    /\ gui.current_image_index = Len(gui.image_paths) - 1
    /\ gui.current_image # NoPicture
    /\ C26_SelectionInvariant

(***************************************************************************)
(* Claims about the import dialog (SpecDialog)                             *)
(***************************************************************************)

\* C27: for one ImportDialog the import callback is invoked at most once,
\* under every ordering of drop, clipboard-check, confirm, select-files and
\* select-folder events and of the delayed calls that the clipboard check
\* schedules.
C27_CallbackAtMostOnce == dlg.callbacks <= 1

====
